---- MODULE Spec2Model ----
(***************************************************************************)
(* A model of the Coda MCP server: the credential resolver (types/env.ts), *)
(* the worker's fetch handler (index.ts) and the API client (client.ts).   *)
(*                                                                         *)
(* Values.  A JavaScript string is a TLA+ string; `undefined` and `null`   *)
(* are the two strings Undefined and Null, which no header, key or body    *)
(* field of the model takes as a value.  A JavaScript number that may be   *)
(* NaN is a record [nan, n].  The text of a Retry-After header is a        *)
(* sequence of one-character strings, so that parseInt can be computed.    *)
(***************************************************************************)
EXTENDS Integers, Sequences, FiniteSets, TLC

VARIABLES
    clients,    \* the CodaClientImpl instances alive, in construction order
    ctorLog,    \* ghost: the TenantCredentials handed to each constructor call
    inflight,   \* outbound fetch calls started and not yet answered
    last,       \* the outcome of the operation that completed most recently
    http,       \* the worker's most recent inbound exchange
    nPassed,    \* ghost: inbound /mcp requests that passed validateCredentials
    tool,       \* the tool handler running, or the result of the one that returned last
    log,        \* ghost: the invocations made and the fetch calls started, in order
    calc        \* the evaluation of a helper function: its argument, then its result

vars == <<clients, ctorLog, inflight, last, http, nPassed, tool, log, calc>>

-----------------------------------------------------------------------------
(* Bounds of the model *)

MaxClients == 1
MaxIsoClients == 2
MaxServers == 2
MaxParams == 2
MaxInvocations == 2
MaxParses == 2

-----------------------------------------------------------------------------
(* JavaScript values *)

Undefined == "<undefined>"
Null == "<null>"

\* ToBoolean of a string-or-absent value: undefined, null and "" are falsy
Truthy(v) == v # Undefined /\ v # Null /\ v # ""

\* a || b
OrElse(a, b) == IF Truthy(a) THEN a ELSE b

NaN == [nan |-> TRUE, n |-> 0]
Num(k) == [nan |-> FALSE, n |-> k]

-----------------------------------------------------------------------------
(* Program constants *)

API_BASE_URL == "https://coda.io/apis/v1"
DefaultRetryAfter == 60
RateLimitStatus == 429
UnauthorizedStatus == 401
ForbiddenStatus == 403
AcceptedStatus == 202
NoContentStatus == 204

-----------------------------------------------------------------------------
(* types/env.ts: the credential resolver *)

\* An inbound request's two credential headers; Null is what headers.get
\* returns for a header the request does not carry.
HeaderValues == {Null, "", "K1", "K2"}
BaseUrlHeaderValues == {Null, "", "https://tenant.example/v1"}

\* a resolver that returns what headers.get returned
parseTenantCredentialsAsGot(hdrs) ==
    [apiKey |-> hdrs.apiKey, baseUrl |-> hdrs.baseUrl]

\* parseTenantCredentials(request): headers.get(..) || undefined
parseTenantCredentials(hdrs) ==
    [apiKey  |-> OrElse(hdrs.apiKey, Undefined),
     baseUrl |-> OrElse(hdrs.baseUrl, Undefined)]

\* a validation that tests the key against null only
validateCredentialsNullOnly(credentials) ==
    IF credentials.apiKey = Null
    THEN [kind |-> "throw",
          error |-> [name |-> "Error",
                     message |-> "Missing credentials. Provide X-Coda-API-Key header."]]
    ELSE [kind |-> "return"]

\* validateCredentials(credentials): returns silently ("ok") or throws a plain
\* Error; the result is what the caller's try/catch sees.
validateCredentials(credentials) ==
    IF ~Truthy(credentials.apiKey)
    THEN [kind |-> "throw",
          error |-> [name |-> "Error",
                     message |-> "Missing credentials. Provide X-Coda-API-Key header."]]
    ELSE [kind |-> "return"]

-----------------------------------------------------------------------------
(* utils/errors.ts: the three error kinds, as client.ts constructs them *)

AuthenticationError(message) ==
    [name |-> "AuthenticationError", message |-> message]

RateLimitError(message, retryAfterSeconds) ==
    [name |-> "RateLimitError", message |-> message,
     retryAfter |-> retryAfterSeconds]

CodaApiError(message, status) ==
    [name |-> "CodaApiError", message |-> message, status |-> status]

-----------------------------------------------------------------------------
(* client.ts: construction and the authorization header *)

\* a constructor that falls back to the default only for an absent base
\* URL (credentials.baseUrl ?? API_BASE_URL)
NewClientNullish(credentials) ==
    [credentials |-> credentials,
     baseUrl     |-> IF credentials.baseUrl # Undefined /\ credentials.baseUrl # Null
                     THEN credentials.baseUrl ELSE API_BASE_URL]

\* new CodaClientImpl(credentials)
NewClient(credentials) ==
    [credentials |-> credentials,
     baseUrl     |-> OrElse(credentials.baseUrl, API_BASE_URL)]

\* a client whose credentials live in one module-level slot, which every
\* construction overwrites
createCodaClientShared(cs, credentials) ==
    [i \in 1..(Len(cs) + 1) |-> NewClient(credentials)]

\* createCodaClient(credentials): one more instance, the others untouched
createCodaClient(cs, credentials) == Append(cs, NewClient(credentials))

\* a getAuthHeaders that does not test the key
getAuthHeadersUnchecked(client) ==
    [kind |-> "return",
     headers |-> [Authorization |-> "Bearer " \o client.credentials.apiKey,
                  ContentType   |-> "application/json"]]

\* getAuthHeaders(): the two headers, or the AuthenticationError it throws
getAuthHeaders(client) ==
    IF Truthy(client.credentials.apiKey)
    THEN [kind |-> "return",
          headers |-> [Authorization |-> "Bearer " \o client.credentials.apiKey,
                       ContentType   |-> "application/json"]]
    ELSE [kind |-> "throw",
          error |-> AuthenticationError(
                      "No credentials provided. Include X-Coda-API-Key header.")]

\* { ...this.getAuthHeaders(), ...(options.headers || {}) }: a header the
\* operation supplies replaces the one of the same name.  extra is a record
\* of the same two fields, Undefined where the operation supplies none.
MergeHeaders(auth, extra) ==
    [Authorization |-> IF extra.Authorization # Undefined
                       THEN extra.Authorization ELSE auth.Authorization,
     ContentType   |-> IF extra.ContentType # Undefined
                       THEN extra.ContentType ELSE auth.ContentType]

NoExtraHeaders == [Authorization |-> Undefined, ContentType |-> Undefined]

-----------------------------------------------------------------------------
(* parseInt(text, 10), on a text given as a sequence of characters *)

DigitChars == {"0", "3"}
DigitVal(c) == IF c = "3" THEN 3 ELSE 0

RECURSIVE SkipWhitespace(_)
SkipWhitespace(s) ==
    IF s # <<>> /\ Head(s) = " " THEN SkipWhitespace(Tail(s)) ELSE s

\* the number of characters of the longest prefix of s made of digits
RECURSIVE DigitPrefixLen(_)
DigitPrefixLen(s) ==
    IF s # <<>> /\ Head(s) \in DigitChars THEN 1 + DigitPrefixLen(Tail(s)) ELSE 0

\* the value of a sequence of digits, acc being the value read so far
RECURSIVE DigitsValue(_, _)
DigitsValue(s, acc) ==
    IF s = <<>> THEN acc ELSE DigitsValue(Tail(s), 10 * acc + DigitVal(Head(s)))

\* leading white space skipped, an optional sign, then the longest run of
\* digits; NaN when there is no digit to read
parseInt(text) ==
    LET t    == SkipWhitespace(text)
        sign == t # <<>> /\ Head(t) = "-"
        u    == IF sign THEN Tail(t) ELSE t
        k    == DigitPrefixLen(u)
        v    == DigitsValue(SubSeq(u, 1, k), 0)
    IN  IF k = 0 THEN NaN ELSE Num(IF sign THEN 0 - v ELSE v)

\* The values headers.get('Retry-After') can return: null for no header,
\* else the header's text, which the Headers object has stripped of leading
\* and trailing white space: "", "30", "3", "0", "x", "-", "3x", "-3", "3 0".
RetryAfterTexts ==
    {<<>>, <<"3", "0">>, <<"3">>, <<"0">>, <<"x">>, <<"-">>, <<"3", "x">>,
     <<"-", "3">>, <<"3", " ", "0">>}

NoRetryAfter == [present |-> FALSE, text |-> <<>>]
RetryAfterHeaders ==
    {NoRetryAfter} \cup {[present |-> TRUE, text |-> s] : s \in RetryAfterTexts}

-----------------------------------------------------------------------------
(* JSON.parse, on the body texts the model's upstream sends *)

JsonUndefined == [kind |-> "undefined", message |-> Undefined, error |-> Undefined]
JsonNull      == [kind |-> "null", message |-> Undefined, error |-> Undefined]
JsonObject(message, error) ==
    [kind |-> "object", message |-> message, error |-> error]

BodyTexts ==
    {"<html>Bad Gateway</html>", "null", "{}",
     "{\"message\":\"m\"}", "{\"error\":\"e\"}",
     "{\"message\":\"m\",\"error\":\"e\"}",
     "{\"message\":\"\",\"error\":\"e\"}"}

\* an array value
JsonArray(elems) ==
    [kind |-> "array", message |-> Undefined, error |-> Undefined, elems |-> elems]

\* The bodies of successful answers: a mutation acknowledgment, and listing
\* envelopes whose nextPageToken is absent, null, empty and non-empty.
AckBody == "{\"requestId\":\"req-1\",\"addedRowIds\":[\"i-2\",\"i-1\"]}"
EnvelopeNoToken == "{\"items\":[\"b\",\"a\",\"b\"]}"
EnvelopeNullToken == "{\"items\":[\"a\",\"b\"],\"nextPageToken\":null}"
EnvelopeEmptyToken ==
    "{\"items\":[],\"nextPageToken\":\"\",\"nextPageLink\":\"https://coda.io/apis/v1/docs\"}"
EnvelopeToken ==
    "{\"items\":[\"b\",\"a\"],\"nextPageToken\":\"tok\",\"nextPageLink\":\"https://coda.io/apis/v1/docs?pageToken=tok\"}"
EnvelopeLinkOnly ==
    "{\"items\":[\"a\"],\"nextPageLink\":\"https://coda.io/apis/v1/docs?pageToken=x\"}"

DeleteAckBody == "{\"requestId\":\"req-2\",\"rowIds\":[\"i-1\"]}"

\* the user whoami describes
UserBody == "{\"name\":\"Ada\"}"

Envelopes ==
    {EnvelopeNoToken, EnvelopeNullToken, EnvelopeEmptyToken, EnvelopeToken,
     EnvelopeLinkOnly}

DataBodyTexts == {AckBody, "{}", "null"} \cup Envelopes

\* [ok |-> FALSE] is the SyntaxError JSON.parse throws
JSONparse(text) ==
    CASE text = "null" -> [ok |-> TRUE, value |-> JsonNull]
      [] text = AckBody ->
            [ok |-> TRUE,
             value |-> [kind |-> "object", message |-> Undefined, error |-> Undefined,
                        requestId |-> "req-1",
                        addedRowIds |-> JsonArray(<<"i-2", "i-1">>)]]
      [] text = DeleteAckBody ->
            [ok |-> TRUE,
             value |-> [kind |-> "object", message |-> Undefined, error |-> Undefined,
                        requestId |-> "req-2",
                        rowIds |-> JsonArray(<<"i-1">>)]]
      [] text = UserBody ->
            [ok |-> TRUE,
             value |-> [kind |-> "object", message |-> Undefined, error |-> Undefined,
                        name |-> "Ada"]]
      [] text = "{\"requestId\":\"req-3\",\"addedRowIds\":[],\"updatedRowIds\":[\"i-7\",\"i-3\"]}" ->
            [ok |-> TRUE,
             value |-> [kind |-> "object", message |-> Undefined, error |-> Undefined,
                        requestId |-> "req-3",
                        addedRowIds |-> JsonArray(<<>>),
                        updatedRowIds |-> JsonArray(<<"i-7", "i-3">>)]]
      [] text = "{\"requestId\":\"req-4\",\"id\":\"i-1\"}" ->
            [ok |-> TRUE,
             value |-> [kind |-> "object", message |-> Undefined, error |-> Undefined,
                        requestId |-> "req-4", id |-> "i-1"]]
      [] text = EnvelopeNoToken ->
            [ok |-> TRUE,
             value |-> [kind |-> "object", message |-> Undefined, error |-> Undefined,
                        items |-> JsonArray(<<"b", "a", "b">>)]]
      [] text = EnvelopeNullToken ->
            [ok |-> TRUE,
             value |-> [kind |-> "object", message |-> Undefined, error |-> Undefined,
                        items |-> JsonArray(<<"a", "b">>),
                        nextPageToken |-> Null]]
      [] text = EnvelopeEmptyToken ->
            [ok |-> TRUE,
             value |-> [kind |-> "object", message |-> Undefined, error |-> Undefined,
                        items |-> JsonArray(<<>>),
                        nextPageToken |-> "",
                        nextPageLink |-> "https://coda.io/apis/v1/docs"]]
      [] text = EnvelopeToken ->
            [ok |-> TRUE,
             value |-> [kind |-> "object", message |-> Undefined, error |-> Undefined,
                        items |-> JsonArray(<<"b", "a">>),
                        nextPageToken |-> "tok",
                        nextPageLink |-> "https://coda.io/apis/v1/docs?pageToken=tok"]]
      [] text = EnvelopeLinkOnly ->
            [ok |-> TRUE,
             value |-> [kind |-> "object", message |-> Undefined, error |-> Undefined,
                        items |-> JsonArray(<<"a">>),
                        nextPageLink |-> "https://coda.io/apis/v1/docs?pageToken=x"]]
      [] text = "{}"   -> [ok |-> TRUE, value |-> JsonObject(Undefined, Undefined)]
      [] text = "{\"message\":\"m\"}" ->
            [ok |-> TRUE, value |-> JsonObject("m", Undefined)]
      [] text = "{\"error\":\"e\"}" ->
            [ok |-> TRUE, value |-> JsonObject(Undefined, "e")]
      [] text = "{\"message\":\"m\",\"error\":\"e\"}" ->
            [ok |-> TRUE, value |-> JsonObject("m", "e")]
      [] text = "{\"message\":\"\",\"error\":\"e\"}" ->
            [ok |-> TRUE, value |-> JsonObject("", "e")]
      [] OTHER -> [ok |-> FALSE, value |-> JsonUndefined]

-----------------------------------------------------------------------------
(* client.ts: request, after fetch has answered *)

Statuses == {200, 202, 204, 400, 401, 403, 429, 500}

\* What the upstream may answer: any status with any body, and on a 429 any
\* Retry-After header (the only status on which the header is read).
Responses ==
    {[status |-> st, retryAfter |-> NoRetryAfter, body |-> b] :
        st \in Statuses, b \in BodyTexts}
    \cup {[status |-> RateLimitStatus, retryAfter |-> h, body |-> ""] :
        h \in RetryAfterHeaders}

\* response.ok
ResponseOk(status) == status >= 200 /\ status <= 299

Return(v) == [kind |-> "return", value |-> v]
Throw(e) == [kind |-> "throw", error |-> e]

\* retryAfter ? parseInt(retryAfter, 10) : 60
RetryAfterSeconds(h) ==
    IF h.present /\ h.text # <<>> THEN parseInt(h.text) ELSE Num(DefaultRetryAfter)

\* a message that prefers the body's error field to its message field
ErrorMessageErrorFirst(status, body) ==
    LET default == "API error: " \o ToString(status)
        parsed  == JSONparse(body)
    IN  IF ~parsed.ok \/ parsed.value.kind # "object"
        THEN default
        ELSE OrElse(OrElse(parsed.value.error, parsed.value.message), default)

\* the !response.ok branch's message: errorJson.message || errorJson.error ||
\* message, inside a try whose catch keeps the default.  Reading a property
\* of null throws the TypeError that the catch swallows.
ErrorMessage(status, body) ==
    LET default == "API error: " \o ToString(status)
        parsed  == JSONparse(body)
    IN  IF ~parsed.ok \/ parsed.value.kind # "object"
        THEN default
        ELSE OrElse(OrElse(parsed.value.message, parsed.value.error), default)

\* response.json(): the parsed body, or the SyntaxError of a body that is not JSON
ResponseJson(body) ==
    LET parsed == JSONparse(body)
    IN  IF parsed.ok THEN Return(parsed.value)
        ELSE Throw([name |-> "SyntaxError", message |-> "Unexpected end of JSON input"])

\* The branches of request's classification.  bodyRead tells whether
\* response.text() or response.json() was called.
RateLimited(resp) ==
    [outcome  |-> Throw(RateLimitError("Rate limit exceeded",
                                       RetryAfterSeconds(resp.retryAfter))),
     bodyRead |-> FALSE]

AuthFailed(resp) ==
    [outcome  |-> Throw(AuthenticationError(
                          "Authentication failed. Check your API credentials.")),
     bodyRead |-> FALSE]

ApiFailed(resp) ==
    [outcome  |-> Throw(CodaApiError(ErrorMessage(resp.status, resp.body), resp.status)),
     bodyRead |-> TRUE]

ParsedBody(resp) == [outcome |-> ResponseJson(resp.body), bodyRead |-> TRUE]

NoContent(resp) == [outcome |-> Return(JsonUndefined), bodyRead |-> FALSE]

\* a request that tests !response.ok before the 401 and 403 statuses
ClassifyGenericFirst(resp) ==
    IF resp.status = RateLimitStatus THEN RateLimited(resp)
    ELSE IF ~ResponseOk(resp.status) THEN ApiFailed(resp)
    ELSE IF resp.status = UnauthorizedStatus \/ resp.status = ForbiddenStatus
    THEN AuthFailed(resp)
    ELSE IF resp.status = AcceptedStatus THEN ParsedBody(resp)
    ELSE IF resp.status = NoContentStatus THEN NoContent(resp)
    ELSE ParsedBody(resp)

\* a request that reads no body on a 202, as on a 204
ClassifyAcceptedEmpty(resp) ==
    IF resp.status = RateLimitStatus THEN RateLimited(resp)
    ELSE IF resp.status = UnauthorizedStatus \/ resp.status = ForbiddenStatus
    THEN AuthFailed(resp)
    ELSE IF ~ResponseOk(resp.status) THEN ApiFailed(resp)
    ELSE IF resp.status = AcceptedStatus \/ resp.status = NoContentStatus
    THEN NoContent(resp)
    ELSE ParsedBody(resp)

\* a request without the 204 branch
ClassifyWithout204(resp) ==
    IF resp.status = RateLimitStatus THEN RateLimited(resp)
    ELSE IF resp.status = UnauthorizedStatus \/ resp.status = ForbiddenStatus
    THEN AuthFailed(resp)
    ELSE IF ~ResponseOk(resp.status) THEN ApiFailed(resp)
    ELSE ParsedBody(resp)

\* The classification of request, in the order of the code.
Classify(resp) ==
    IF resp.status = RateLimitStatus THEN RateLimited(resp)
    ELSE IF resp.status = UnauthorizedStatus \/ resp.status = ForbiddenStatus
    THEN AuthFailed(resp)
    ELSE IF ~ResponseOk(resp.status) THEN ApiFailed(resp)
    ELSE IF resp.status = AcceptedStatus THEN ParsedBody(resp)
    ELSE IF resp.status = NoContentStatus THEN NoContent(resp)
    ELSE ParsedBody(resp)

-----------------------------------------------------------------------------
(* client.ts: query strings and path segments *)

\* an interpolation that leaves the identifier as it is
encodeURIComponentRaw(s) == s

\* encodeURIComponent, on the identifiers the model's callers supply; an
\* identifier of unreserved characters only is left as it is
encodeURIComponent(s) ==
    CASE s = "a/b" -> "a%2Fb"
      [] s = "x y" -> "x%20y"
      [] s = "q?r" -> "q%3Fr"
      [] OTHER     -> s

\* URLSearchParams' serialisation of one name or value
FormEncode(s) ==
    CASE s = "https://coda.io/d/_dAbC" -> "https%3A%2F%2Fcoda.io%2Fd%2F_dAbC"
      [] s = "a b"                     -> "a+b"
      [] OTHER                         -> s

\* A parameter object is a sequence of entries [key, kind, vals], in
\* Object.entries order; kind is "undefined", "null", "array" or "scalar",
\* and vals holds the stringified element(s).
RECURSIVE JoinPairs(_, _)
JoinPairs(key, vals) ==
    IF vals = <<>> THEN <<>>
    ELSE <<FormEncode(key) \o "=" \o FormEncode(Head(vals))>> \o JoinPairs(key, Tail(vals))

\* the pairs of a buildQueryString that sets an array as one value, which
\* String() joins with commas
RECURSIVE JoinComma(_)
JoinComma(vals) ==
    IF vals = <<>> THEN ""
    ELSE IF Len(vals) = 1 THEN vals[1]
    ELSE vals[1] \o "," \o JoinComma(Tail(vals))

RECURSIVE QueryPairsCommaJoined(_)
QueryPairsCommaJoined(params) ==
    IF params = <<>> THEN <<>>
    ELSE LET e == Head(params)
         IN  (IF e.kind \in {"undefined", "null"} THEN <<>>
              ELSE IF e.kind = "array" THEN JoinPairs(e.key, <<JoinComma(e.vals)>>)
              ELSE JoinPairs(e.key, <<e.vals[1]>>))
             \o QueryPairsCommaJoined(Tail(params))

RECURSIVE QueryPairs(_)
QueryPairs(params) ==
    IF params = <<>> THEN <<>>
    ELSE LET e == Head(params)
         IN  (IF e.kind \in {"undefined", "null"} THEN <<>>
              ELSE IF e.kind = "array" THEN JoinPairs(e.key, e.vals)
              ELSE JoinPairs(e.key, <<e.vals[1]>>))
             \o QueryPairs(Tail(params))

RECURSIVE JoinAmp(_)
JoinAmp(pairs) ==
    IF pairs = <<>> THEN ""
    ELSE IF Len(pairs) = 1 THEN pairs[1]
    ELSE pairs[1] \o "&" \o JoinAmp(Tail(pairs))

buildQueryString(params) ==
    LET queryString == JoinAmp(QueryPairs(params))
    IN  IF queryString # "" THEN "?" \o queryString ELSE ""

Scalar(key, v) == [key |-> key, kind |-> "scalar", vals |-> <<v>>]

\* The values a caller may put in a parameter object (Record<string, unknown>):
\* undefined, null, booleans, numbers, strings, and arrays of strings.
JsUndefined == [t |-> "undefined"]
JsNull == [t |-> "null"]
JsBoolean(b) == [t |-> "boolean", b |-> b]
JsNumber(n) == [t |-> "number", n |-> n]
JsText(text) == [t |-> "string", s |-> text]
JsArrayOf(elems) == [t |-> "array", elems |-> elems]

\* String(value), of a value that is neither undefined, null nor an array
JsString(v) ==
    CASE v.t = "boolean" -> IF v.b THEN "true" ELSE "false"
      [] v.t = "number"  -> ToString(v.n)
      [] v.t = "string"  -> v.s

\* an object: its own properties as entries [key, value], in insertion order
JsObject(entries) == [t |-> "object", entries |-> entries]
Property(key, value) == [key |-> key, value |-> value]
IsDefined(entry) == entry.value.t # "undefined"

\* JSON.stringify(value): a property whose value is undefined is left out, an
\* undefined element of an array is written null; the strings of the model
\* hold no character that needs an escape
RECURSIVE JSONstringify(_)
RECURSIVE StringifyElements(_)
RECURSIVE StringifyProperties(_)
JSONstringify(v) ==
    CASE v.t \in {"null", "undefined"} -> "null"
      [] v.t \in {"boolean", "number"} -> JsString(v)
      [] v.t = "string" -> "\"" \o v.s \o "\""
      [] v.t = "array"  -> "[" \o StringifyElements(v.elems) \o "]"
      [] v.t = "object" ->
            "{" \o StringifyProperties(SelectSeq(v.entries, IsDefined)) \o "}"

StringifyElements(elems) ==
    IF elems = <<>> THEN ""
    ELSE JSONstringify(Head(elems))
            \o (IF Len(elems) > 1 THEN "," \o StringifyElements(Tail(elems)) ELSE "")

StringifyProperties(entries) ==
    IF entries = <<>> THEN ""
    ELSE "\"" \o Head(entries).key \o "\":" \o JSONstringify(Head(entries).value)
            \o (IF Len(entries) > 1 THEN "," \o StringifyProperties(Tail(entries)) ELSE "")

\* one entry of Object.entries(params), as QueryPairs reads it
ParamEntry(key, v) ==
    CASE v.t = "undefined" -> [key |-> key, kind |-> "undefined", vals |-> <<>>]
      [] v.t = "null"      -> [key |-> key, kind |-> "null", vals |-> <<>>]
      [] v.t = "array"     ->
            [key |-> key, kind |-> "array",
             vals |-> [i \in 1..Len(v.elems) |-> JsString(v.elems[i])]]
      [] OTHER             -> Scalar(key, JsString(v))

ParamKeys == {"limit", "query", "isOwner"}

ParamValues ==
    {JsUndefined, JsNull, JsBoolean(FALSE), JsBoolean(TRUE), JsNumber(0),
     JsNumber(25), JsText(""), JsText("a b"),
     JsArrayOf(<<>>), JsArrayOf(<<JsText("y"), JsText("x"), JsText("y")>>),
     JsArrayOf(<<JsText("x")>>)}

\* parameter objects of at most MaxParams properties, in insertion order
ParamObjects ==
    UNION {{p \in [1..n -> [key : ParamKeys, value : ParamValues]] :
                \A i, j \in 1..n : i # j => p[i].key # p[j].key} : n \in 0..MaxParams}

\* Object.entries(params)
ObjectEntries(p) == [i \in 1..Len(p) |-> ParamEntry(p[i].key, p[i].value)]

-----------------------------------------------------------------------------
(* client.ts: the per-resource operations *)

ListOps ==
    {"listDocs", "listPages", "listTables", "listColumns", "listRows",
     "listFormulas", "listControls", "listAutomations", "listPermissions"}

\* operations that await request and return nothing
VoidOps == {"deleteDoc", "deletePermission", "publishDoc", "unpublishDoc"}

\* operations that return request's value as it is
DirectOps ==
    {"whoami", "getDoc", "createDoc", "getPage", "createPage", "updatePage",
     "getTable", "getColumn", "getRow", "upsertRows", "updateRow", "deleteRow",
     "deleteRows", "pushButton", "getFormula", "getControl", "triggerAutomation",
     "getAclMetadata", "addPermission", "getAclSettings", "updateAclSettings",
     "resolveBrowserLink", "getMutationStatus"}

Ops == ListOps \cup VoidOps \cup DirectOps \cup {"listCategories", "testConnection"}

\* operations with a flag argument (useColumnNames, disableParsing,
\* degradeGracefully)
FlagOps == {"getRow", "upsertRows", "updateRow", "resolveBrowserLink"}

DocIds == {"d1"}

\* the parameters of a tool call, where the model does not tell them apart
NoParameters == [tool |-> "any"]

\* the input (or rowIds, or payload) argument of an operation that takes one
PlainInput(op) ==
    CASE op = "deleteRows"        -> JsArrayOf(<<JsText("i-1")>>)
      [] op = "triggerAutomation" -> JsUndefined
      [] OTHER                    -> JsObject(<<>>)

\* the arguments an invocation of op may carry; given holds the parameters
\* of the tool call the invocation serves
ArgsOf(op) ==
    {[docId |-> d, id2 |-> "t1", id3 |-> "r1", id4 |-> "c1", flag |-> f,
      url |-> "https://coda.io/d/_dAbC", params |-> <<>>,
      input |-> PlainInput(op), given |-> NoParameters] :
        d \in DocIds, f \in IF op \in FlagOps THEN BOOLEAN ELSE {FALSE}}

\* the identifiers each operation takes and puts in its path, in parameter order
PathArgs(op) ==
    CASE op \in {"whoami", "testConnection", "listDocs", "createDoc",
                 "listCategories", "resolveBrowserLink"} -> <<>>
      [] op = "getMutationStatus" -> <<"id2">>
      [] op \in {"getDoc", "deleteDoc", "listPages", "createPage", "listTables",
                 "listFormulas", "listControls", "listAutomations",
                 "getAclMetadata", "listPermissions", "addPermission",
                 "getAclSettings", "updateAclSettings", "publishDoc",
                 "unpublishDoc"} -> <<"docId">>
      [] op \in {"getPage", "updatePage", "getTable", "listColumns", "listRows",
                 "upsertRows", "deleteRows", "getFormula", "getControl",
                 "triggerAutomation", "deletePermission"} -> <<"docId", "id2">>
      [] op \in {"getColumn", "getRow", "updateRow", "deleteRow"} ->
            <<"docId", "id2", "id3">>
      [] op = "pushButton" -> <<"docId", "id2", "id3", "id4">>

\* identifiers with a '/', a space or a '?' in them
Identifiers == {"a/b", "x y", "q?r"}

PlainArgs ==
    [docId |-> "d1", id2 |-> "t1", id3 |-> "r1", id4 |-> "c1", flag |-> FALSE,
     url |-> "https://coda.io/d/_dAbC", params |-> <<>>,
     input |-> JsObject(<<>>), given |-> NoParameters]

\* the arguments of op with any identifier in each place its path uses
AnyIdArgsOf(op) ==
    LET used == {PathArgs(op)[i] : i \in 1..Len(PathArgs(op))}
        Ids(f) == IF f \in used THEN Identifiers ELSE {PlainArgs[f]}
    IN  {[PlainArgs EXCEPT !.docId = d, !.id2 = i2, !.id3 = i3, !.id4 = i4,
                           !.input = PlainInput(op)] :
            d \in Ids("docId"), i2 \in Ids("id2"), i3 \in Ids("id3"), i4 \in Ids("id4")}

Doc(a) == "/docs/" \o encodeURIComponent(a.docId)
Table(a) == Doc(a) \o "/tables/" \o encodeURIComponent(a.id2)
Row(a) == Table(a) \o "/rows/" \o encodeURIComponent(a.id3)

\* the endpoint each operation hands to request
Endpoint(op, a) ==
    CASE op \in {"whoami", "testConnection"} -> "/whoami"
      [] op = "listDocs"        -> "/docs" \o buildQueryString(a.params)
      [] op = "createDoc"       -> "/docs"
      [] op \in {"getDoc", "deleteDoc"} -> Doc(a)
      [] op = "listPages"       -> Doc(a) \o "/pages" \o buildQueryString(a.params)
      [] op = "createPage"      -> Doc(a) \o "/pages"
      [] op \in {"getPage", "updatePage"} ->
            Doc(a) \o "/pages/" \o encodeURIComponent(a.id2)
      [] op = "listTables"      -> Doc(a) \o "/tables" \o buildQueryString(a.params)
      [] op = "getTable"        -> Table(a)
      [] op = "listColumns"     -> Table(a) \o "/columns" \o buildQueryString(a.params)
      [] op = "getColumn"       -> Table(a) \o "/columns/" \o encodeURIComponent(a.id3)
      [] op = "listRows"        -> Table(a) \o "/rows" \o buildQueryString(a.params)
      [] op = "getRow"          ->
            Row(a) \o (IF a.flag THEN "?useColumnNames=true" ELSE "")
      [] op = "upsertRows"      ->
            Table(a) \o "/rows" \o (IF a.flag THEN "?disableParsing=true" ELSE "")
      [] op = "updateRow"       ->
            Row(a) \o (IF a.flag THEN "?disableParsing=true" ELSE "")
      [] op = "deleteRow"       -> Row(a)
      [] op = "deleteRows"      -> Table(a) \o "/rows"
      [] op = "pushButton"      -> Row(a) \o "/buttons/" \o encodeURIComponent(a.id4)
      [] op = "listFormulas"    -> Doc(a) \o "/formulas" \o buildQueryString(a.params)
      [] op = "getFormula"      -> Doc(a) \o "/formulas/" \o encodeURIComponent(a.id2)
      [] op = "listControls"    -> Doc(a) \o "/controls" \o buildQueryString(a.params)
      [] op = "getControl"      -> Doc(a) \o "/controls/" \o encodeURIComponent(a.id2)
      [] op = "listAutomations" ->
            Doc(a) \o "/hooks/automation/rules" \o buildQueryString(a.params)
      [] op = "triggerAutomation" ->
            Doc(a) \o "/hooks/automation/" \o encodeURIComponent(a.id2)
      [] op = "getAclMetadata"  -> Doc(a) \o "/acl/metadata"
      [] op \in {"listPermissions"} ->
            Doc(a) \o "/acl/permissions" \o buildQueryString(a.params)
      [] op = "addPermission"   -> Doc(a) \o "/acl/permissions"
      [] op = "deletePermission" ->
            Doc(a) \o "/acl/permissions/" \o encodeURIComponent(a.id2)
      [] op \in {"getAclSettings", "updateAclSettings"} -> Doc(a) \o "/acl/settings"
      [] op = "listCategories"  -> "/categories"
      [] op \in {"publishDoc", "unpublishDoc"} -> Doc(a) \o "/publish"
      [] op = "resolveBrowserLink" ->
            "/resolveBrowserLink" \o buildQueryString(
                <<Scalar("url", a.url),
                  Scalar("degradeGracefully", IF a.flag THEN "true" ELSE "false")>>)
      [] op = "getMutationStatus" -> "/mutationStatus/" \o encodeURIComponent(a.id2)

\* operations that replace with POST where the code has PUT and PATCH
OptionsMethodPostForUpdates(op) ==
    CASE op \in {"createDoc", "createPage", "upsertRows", "pushButton",
                 "triggerAutomation", "addPermission", "updatePage", "updateRow",
                 "publishDoc", "updateAclSettings"} -> "POST"
      [] op \in {"deleteDoc", "deleteRow", "deleteRows", "deletePermission",
                 "unpublishDoc"} -> "DELETE"
      [] OTHER -> Undefined

\* options.method: Undefined where the operation passes none
OptionsMethod(op) ==
    CASE op \in {"createDoc", "createPage", "upsertRows", "pushButton",
                 "triggerAutomation", "addPermission"} -> "POST"
      [] op \in {"updatePage", "updateRow", "publishDoc"} -> "PUT"
      [] op = "updateAclSettings" -> "PATCH"
      [] op \in {"deleteDoc", "deleteRow", "deleteRows", "deletePermission",
                 "unpublishDoc"} -> "DELETE"
      [] OTHER -> Undefined

\* whether the operation passes options.body
OptionsBody(op) ==
    op \in {"createDoc", "createPage", "updatePage", "upsertRows", "updateRow",
            "deleteRows", "triggerAutomation", "addPermission",
            "updateAclSettings", "publishDoc"}

\* options.body: the text the operation makes of its input, Undefined where
\* it passes none
RequestBody(op, a) ==
    CASE op \in {"createDoc", "createPage", "updatePage", "upsertRows",
                 "addPermission", "updateAclSettings", "publishDoc"} ->
            JSONstringify(a.input)
      [] op = "updateRow" ->
            JSONstringify(JsObject(<<Property("row", a.input)>>))
      [] op = "deleteRows" ->
            JSONstringify(JsObject(<<Property("rowIds", a.input)>>))
      [] op = "triggerAutomation" ->
            JSONstringify(IF a.input.t \in {"undefined", "null"}
                          THEN JsObject(<<>>) ELSE a.input)
      [] OTHER -> Undefined

\* an operation that passes headers of its own
OptionsHeadersOverride(op) ==
    IF op = "createDoc"
    THEN [Authorization |-> "Bearer static", ContentType |-> "text/plain"]
    ELSE NoExtraHeaders

\* options.headers: no operation passes any
OptionsHeaders(op) == NoExtraHeaders

\* the call request hands to fetch, once getAuthHeaders has returned
FetchCall(c, client, op, a, auth) ==
    [client   |-> c,
     op       |-> op,
     args     |-> a,
     url      |-> client.baseUrl \o Endpoint(op, a),
     method   |-> OrElse(OptionsMethod(op), "GET"),
     hasBody  |-> OptionsBody(op),
     body     |-> RequestBody(op, a),
     headers  |-> MergeHeaders(auth, OptionsHeaders(op))]

\* what the operation makes of request's outcome
Connection(connected, message) ==
    [kind |-> "connection", connected |-> connected, message |-> message]

\* `${value}`, of a string or an absent value
TemplateText(v) ==
    IF v = Undefined THEN "undefined" ELSE IF v = Null THEN "null" ELSE v

\* reading response.items (or user.name) of undefined or null
ItemsTypeError ==
    [name |-> "TypeError", message |-> "Cannot read properties of undefined"]

\* response.<name>: undefined where the object has no such property
Prop(response, name) ==
    IF name \in DOMAIN response THEN response[name] ELSE Undefined

\* response.items
ItemsOf(response) ==
    IF "items" \in DOMAIN response THEN response.items ELSE JsonUndefined

\* a repackaging whose hasMore tells whether the token property is there at all
PaginatedByPresence(response) ==
    [kind          |-> "paginated",
     items         |-> ItemsOf(response),
     nextPageToken |-> Prop(response, "nextPageToken"),
     nextPageLink  |-> Prop(response, "nextPageLink"),
     hasMore       |-> "nextPageToken" \in DOMAIN response]

\* a repackaging that leaves the link out
PaginatedWithoutLink(response) ==
    [kind          |-> "paginated",
     items         |-> ItemsOf(response),
     nextPageToken |-> Prop(response, "nextPageToken"),
     nextPageLink  |-> Undefined,
     hasMore       |-> Truthy(Prop(response, "nextPageToken"))]

\* { items: response.items, nextPageToken: response.nextPageToken,
\*   nextPageLink: response.nextPageLink, hasMore: !!response.nextPageToken }
Paginated(response) ==
    [kind          |-> "paginated",
     items         |-> ItemsOf(response),
     nextPageToken |-> Prop(response, "nextPageToken"),
     nextPageLink  |-> Prop(response, "nextPageLink"),
     hasMore       |-> Truthy(Prop(response, "nextPageToken"))]

\* operations whose delete, publish and list wrappers catch what request
\* throws and return nothing
FinishSwallowing(op, req) ==
    CASE op \in DirectOps -> req
      [] op \in VoidOps -> Return(JsonUndefined)
      [] op \in ListOps ->
            IF req.kind = "throw" THEN req
            ELSE IF req.value.kind # "object" THEN Throw(ItemsTypeError)
            ELSE Return(Paginated(req.value))
      [] op = "listCategories" ->
            IF req.kind = "throw" THEN Return(JsonArray(<<>>))
            ELSE IF req.value.kind # "object" THEN Throw(ItemsTypeError)
            ELSE Return(ItemsOf(req.value))
      [] op = "testConnection" ->
            IF req.kind = "throw"
            THEN Return(Connection(FALSE, req.error.message))
            ELSE IF req.value.kind \in {"undefined", "null"}
            THEN Return(Connection(FALSE, ItemsTypeError.message))
            ELSE Return(Connection(TRUE, "Successfully connected as "
                                            \o TemplateText(Prop(req.value, "name"))))

\* what each operation makes of request's outcome: returned as it is,
\* discarded, repackaged, or (testConnection) turned into a connectivity result
Finish(op, req) ==
    CASE op \in DirectOps -> req
      [] op \in VoidOps ->
            IF req.kind = "throw" THEN req ELSE Return(JsonUndefined)
      [] op \in ListOps ->
            IF req.kind = "throw" THEN req
            ELSE IF req.value.kind # "object" THEN Throw(ItemsTypeError)
            ELSE Return(Paginated(req.value))
      [] op = "listCategories" ->
            IF req.kind = "throw" THEN req
            ELSE IF req.value.kind # "object" THEN Throw(ItemsTypeError)
            ELSE Return(ItemsOf(req.value))
      [] op = "testConnection" ->
            IF req.kind = "throw"
            THEN Return(Connection(FALSE, req.error.message))
            ELSE IF req.value.kind \in {"undefined", "null"}
            THEN Return(Connection(FALSE, ItemsTypeError.message))
            ELSE Return(Connection(TRUE, "Successfully connected as "
                                            \o TemplateText(Prop(req.value, "name"))))

-----------------------------------------------------------------------------
(* The state machine *)

NoLast == [kind |-> "none"]
NoHttp == [kind |-> "none"]
NoResponse == [status |-> 0, retryAfter |-> NoRetryAfter, body |-> ""]

NoTool == [kind |-> "none"]
NoCalc == [kind |-> "none"]

Init ==
    /\ clients = <<>>
    /\ ctorLog = <<>>
    /\ inflight = {}
    /\ last = NoLast
    /\ http = NoHttp
    /\ nPassed = 0
    /\ tool = NoTool
    /\ log = <<>>
    /\ calc = NoCalc

\* a step of the client or of the worker that involves no tool handler, is
\* not logged and evaluates no helper on its own
Untracked == UNCHANGED <<tool, log, calc>>

\* the credentials a caller may hand to createCodaClient directly
ClientCredentials ==
    [apiKey : {Undefined, "", "K1"},
     baseUrl : {Undefined, "https://tenant.example/v1"}]

\* the same, with a second key
DirectCredentials ==
    [apiKey : {Undefined, "", "K1", "K2"},
     baseUrl : {Undefined, "https://tenant.example/v1"}]

\* createCodaClient(credentials), called directly
CreateClient(credentials, bound) ==
    /\ Len(clients) < bound
    /\ clients' = createCodaClient(clients, credentials)
    /\ ctorLog' = Append(ctorLog, credentials)
    /\ UNCHANGED <<inflight, last, http, nPassed>>

Busy(c) == \E call \in inflight : call.client = c

\* a client whose testConnection probes the upstream with a second call
InvokeProbing(c, op, a) ==
    /\ ~Busy(c)
    /\ LET auth == getAuthHeaders(clients[c])
       IN  IF auth.kind = "throw"
           THEN /\ last' = [kind     |-> "done",
                            client   |-> c,
                            op       |-> op,
                            sent     |-> FALSE,
                            resp     |-> NoResponse,
                            request  |-> Throw(auth.error),
                            bodyRead |-> FALSE,
                            outcome  |-> Finish(op, Throw(auth.error))]
                /\ UNCHANGED inflight
           ELSE /\ inflight' = inflight \cup
                       {FetchCall(c, clients[c], op, a, auth.headers)} \cup
                       (IF op = "testConnection"
                        THEN {FetchCall(c, clients[c], "listDocs", a, auth.headers)}
                        ELSE {})
                /\ last' = NoLast
    /\ UNCHANGED <<clients, ctorLog, http, nPassed>>

\* An operation of client c runs up to its await of fetch: either
\* getAuthHeaders throws and the operation completes at once, or the call is
\* handed to fetch.
Invoke(c, op, a) ==
    /\ ~Busy(c)
    /\ LET auth == getAuthHeaders(clients[c])
       IN  IF auth.kind = "throw"
           THEN /\ last' = [kind     |-> "done",
                            client   |-> c,
                            op       |-> op,
                            sent     |-> FALSE,
                            resp     |-> NoResponse,
                            request  |-> Throw(auth.error),
                            bodyRead |-> FALSE,
                            outcome  |-> Finish(op, Throw(auth.error))]
                /\ UNCHANGED inflight
           ELSE /\ inflight' = inflight \cup
                       {FetchCall(c, clients[c], op, a, auth.headers)}
                /\ last' = NoLast
    /\ UNCHANGED <<clients, ctorLog, http, nPassed>>

\* a request that fetches again when it is answered 429
RespondRetrying(call, resp) ==
    /\ call \in inflight
    /\ IF resp.status = RateLimitStatus
       THEN UNCHANGED <<inflight, last>>
       ELSE /\ inflight' = inflight \ {call}
            /\ LET cl == Classify(resp)
               IN  last' = [kind     |-> "done",
                            client   |-> call.client,
                            op       |-> call.op,
                            sent     |-> TRUE,
                            call     |-> call,
                            resp     |-> resp,
                            request  |-> cl.outcome,
                            bodyRead |-> cl.bodyRead,
                            outcome  |-> Finish(call.op, cl.outcome)]
    /\ UNCHANGED <<clients, ctorLog, http, nPassed>>

\* a client that, once a write is accepted, looks up the mutation's status
\* on its own
RespondPolling(call, resp) ==
    /\ call \in inflight
    /\ LET cl == Classify(resp)
           poll == FetchCall(call.client, clients[call.client], "getMutationStatus",
                             [call.args EXCEPT !.id2 = "req-1"], call.headers)
       IN  /\ inflight' = IF resp.status = AcceptedStatus /\ call.method # "GET"
                          THEN (inflight \ {call}) \cup {poll}
                          ELSE inflight \ {call}
           /\ last' = [kind     |-> "done",
                        client   |-> call.client,
                        op       |-> call.op,
                        sent     |-> TRUE,
                        call     |-> call,
                        resp     |-> resp,
                        request  |-> cl.outcome,
                        bodyRead |-> cl.bodyRead,
                        outcome  |-> Finish(call.op, cl.outcome)]
    /\ UNCHANGED <<clients, ctorLog, http, nPassed>>

\* fetch resolves with resp and request classifies it; the operation completes
Respond(call, resp) ==
    /\ call \in inflight
    /\ inflight' = inflight \ {call}
    /\ LET cl == Classify(resp)
       IN  last' = [kind     |-> "done",
                    client   |-> call.client,
                    op       |-> call.op,
                    sent     |-> TRUE,
                    call     |-> call,
                    resp     |-> resp,
                    request  |-> cl.outcome,
                    bodyRead |-> cl.bodyRead,
                    outcome  |-> Finish(call.op, cl.outcome)]
    /\ UNCHANGED <<clients, ctorLog, http, nPassed>>

\* fetch rejects (no response): request lets the rejection through
FetchRejects(call) ==
    /\ call \in inflight
    /\ inflight' = inflight \ {call}
    /\ LET failure == Throw([name |-> "TypeError", message |-> "fetch failed"])
       IN  last' = [kind     |-> "done",
                    client   |-> call.client,
                    op       |-> call.op,
                    sent     |-> TRUE,
                    call     |-> call,
                    resp     |-> NoResponse,
                    request  |-> failure,
                    bodyRead |-> FALSE,
                    outcome  |-> Finish(call.op, failure)]
    /\ UNCHANGED <<clients, ctorLog, http, nPassed>>

(* The client, one operation at a time, every operation and every response *)

Construct ==
    /\ \E cr \in ClientCredentials : CreateClient(cr, MaxClients)
    /\ Untracked

Call ==
    /\ inflight = {}
    /\ \E c \in 1..Len(clients), op \in Ops : \E a \in ArgsOf(op) : Invoke(c, op, a)
    /\ Untracked

Answer ==
    /\ \E call \in inflight, resp \in Responses : Respond(call, resp)
    /\ Untracked

Reject ==
    /\ \E call \in inflight : FetchRejects(call)
    /\ Untracked

Next == Construct \/ Call \/ Answer \/ Reject

Spec == Init /\ [][Next]_vars

-----------------------------------------------------------------------------
(* The client, one operation at a time, on the answers of a healthy upstream *)

DataResponses ==
    {[status |-> st, retryAfter |-> NoRetryAfter, body |-> b] :
        st \in {200, AcceptedStatus}, b \in DataBodyTexts}

AnswerData ==
    /\ \E call \in inflight, resp \in DataResponses : Respond(call, resp)
    /\ Untracked

NextData == Construct \/ Call \/ AnswerData

SpecData == Init /\ [][NextData]_vars

-----------------------------------------------------------------------------
(* The client with its invocations and its fetch calls logged *)

SeqOps == {"upsertRows", "getMutationStatus"}

SeqResponses ==
    {[status |-> AcceptedStatus, retryAfter |-> NoRetryAfter, body |-> AckBody],
     [status |-> RateLimitStatus, retryAfter |-> NoRetryAfter, body |-> ""],
     [status |-> 500, retryAfter |-> NoRetryAfter, body |-> "{}"]}

InvokeEvent(c, op, a) == [e |-> "invoke", client |-> c, op |-> op, args |-> a]
FetchEvent(call) == [e |-> "fetch", client |-> call.client, op |-> call.op,
                     args |-> call.args, call |-> call]
SettleEvent(call, status) == [e |-> "settle", client |-> call.client, op |-> call.op,
                              args |-> call.args, status |-> status]

IsInvoke(ev) == ev.e = "invoke"
IsFetch(ev) == ev.e = "fetch"

\* the fetch calls of a set, as events in some order
RECURSIVE FetchEvents(_)
FetchEvents(calls) ==
    IF calls = {} THEN <<>>
    ELSE LET call == CHOOSE x \in calls : TRUE
         IN  <<FetchEvent(call)>> \o FetchEvents(calls \ {call})

\* the credentials a caller may hand over, an empty base URL included
SeqCredentials ==
    [apiKey : {Undefined, "", "K1"},
     baseUrl : {Undefined, "", "https://tenant.example/v1"}]

ConstructSeq ==
    /\ \E cr \in SeqCredentials : CreateClient(cr, MaxClients)
    /\ UNCHANGED <<tool, log, calc>>

\* an invocation, logged with the fetch calls it starts
CallSeq ==
    /\ Len(SelectSeq(log, IsInvoke)) < MaxInvocations
    /\ \E c \in 1..Len(clients), op \in SeqOps : \E a \in ArgsOf(op) :
          /\ Invoke(c, op, a)
          /\ log' = log \o <<InvokeEvent(c, op, a)>> \o FetchEvents(inflight' \ inflight)
    /\ UNCHANGED <<tool, calc>>

\* an answer, logged with the fetch calls that are outstanding after it and
\* were not before: the call answered, if it is in flight again, and any new one
AnswerSeq ==
    /\ \E call \in inflight, resp \in SeqResponses :
          /\ Respond(call, resp)
          /\ log' = log \o <<SettleEvent(call, resp.status)>>
                        \o FetchEvents(inflight' \ (inflight \ {call}))
    /\ UNCHANGED <<tool, calc>>

RejectSeq ==
    /\ \E call \in inflight :
          /\ FetchRejects(call)
          /\ log' = log \o <<SettleEvent(call, 0)>>
                        \o FetchEvents(inflight' \ (inflight \ {call}))
    /\ UNCHANGED <<tool, calc>>

NextSeq == ConstructSeq \/ CallSeq \/ AnswerSeq \/ RejectSeq

SpecSeq == Init /\ [][NextSeq]_vars

-----------------------------------------------------------------------------
(* utils/formatters.ts and the tool handlers (tools/*.ts, index.ts) *)

\* every registered tool with the one client operation its handler awaits
ToolTable ==
    {<<"coda_list_docs", "listDocs">>, <<"coda_get_doc", "getDoc">>,
     <<"coda_create_doc", "createDoc">>, <<"coda_delete_doc", "deleteDoc">>,
     <<"coda_list_pages", "listPages">>, <<"coda_get_page", "getPage">>,
     <<"coda_create_page", "createPage">>, <<"coda_update_page", "updatePage">>,
     <<"coda_list_tables", "listTables">>, <<"coda_get_table", "getTable">>,
     <<"coda_list_columns", "listColumns">>, <<"coda_get_column", "getColumn">>,
     <<"coda_list_rows", "listRows">>, <<"coda_get_row", "getRow">>,
     <<"coda_upsert_rows", "upsertRows">>, <<"coda_update_row", "updateRow">>,
     <<"coda_delete_row", "deleteRow">>, <<"coda_delete_rows", "deleteRows">>,
     <<"coda_push_button", "pushButton">>,
     <<"coda_list_formulas", "listFormulas">>, <<"coda_get_formula", "getFormula">>,
     <<"coda_list_controls", "listControls">>, <<"coda_get_control", "getControl">>,
     <<"coda_list_automations", "listAutomations">>,
     <<"coda_trigger_automation", "triggerAutomation">>,
     <<"coda_get_sharing_metadata", "getAclMetadata">>,
     <<"coda_list_permissions", "listPermissions">>,
     <<"coda_add_permission", "addPermission">>,
     <<"coda_delete_permission", "deletePermission">>,
     <<"coda_get_acl_settings", "getAclSettings">>,
     <<"coda_update_acl_settings", "updateAclSettings">>,
     <<"coda_list_categories", "listCategories">>,
     <<"coda_publish_doc", "publishDoc">>, <<"coda_unpublish_doc", "unpublishDoc">>,
     <<"coda_whoami", "whoami">>,
     <<"coda_resolve_browser_link", "resolveBrowserLink">>,
     <<"coda_get_mutation_status", "getMutationStatus">>,
     <<"coda_test_connection", "testConnection">>}

ToolNames == {entry[1] : entry \in ToolTable}
ToolOp(name) == (CHOOSE entry \in ToolTable : entry[1] = name)[2]

\* the tools that change rows or run an automation
WriteTools ==
    {"coda_upsert_rows", "coda_update_row", "coda_delete_row", "coda_delete_rows",
     "coda_push_button", "coda_trigger_automation"}

\* a parameter with a default in the tool's schema (z...optional().default(d))
Defaulted(v, d) == IF v.t = "undefined" THEN d ELSE v

\* ToBoolean of a parameter
JsTruthy(v) ==
    CASE v.t \in {"undefined", "null"} -> FALSE
      [] v.t = "boolean" -> v.b
      [] v.t = "number"  -> v.n # 0
      [] v.t = "string"  -> v.s # ""
      [] OTHER           -> TRUE

\* { type: principalType }, with the email or the domain where the type asks
\* for it and the caller gave one
PrincipalOf(given) ==
    JsObject(<<Property("type", given.principalType)>>
             \o (IF given.principalType = JsText("email") /\ JsTruthy(given.email)
                 THEN <<Property("email", given.email)>>
                 ELSE IF given.principalType = JsText("domain") /\ JsTruthy(given.domain)
                 THEN <<Property("domain", given.domain)>>
                 ELSE <<>>))

\* a handler that takes disableParsing to be set whenever the caller gave it
HandlerArgsFlagGiven(name, a, given) ==
    CASE name = "coda_upsert_rows" ->
            [a EXCEPT !.input = JsObject(<<Property("rows", given.rows),
                                           Property("keyColumns", given.keyColumns)>>),
                      !.flag = given.disableParsing.t # "undefined",
                      !.given = given]
      [] name = "coda_update_row" ->
            [a EXCEPT !.input = JsObject(<<Property("cells", given.cells)>>),
                      !.flag = given.disableParsing.t # "undefined",
                      !.given = given]
      [] OTHER -> [a EXCEPT !.given = given]

\* a handler that sends no key columns as an empty list
HandlerArgsKeyed(name, a, given) ==
    CASE name = "coda_upsert_rows" ->
            [a EXCEPT !.input = JsObject(<<Property("rows", given.rows),
                                           Property("keyColumns",
                                                    Defaulted(given.keyColumns,
                                                              JsArrayOf(<<>>)))>>),
                      !.flag = Defaulted(given.disableParsing, JsBoolean(FALSE)).b,
                      !.given = given]
      [] OTHER -> [a EXCEPT !.given = given]

\* the arguments a handler hands to its client operation, made of the
\* parameters given of the tool call; a holds the identifiers
HandlerArgs(name, a, given) ==
    CASE name = "coda_upsert_rows" ->
            [a EXCEPT !.input = JsObject(<<Property("rows", given.rows),
                                           Property("keyColumns", given.keyColumns)>>),
                      !.flag = Defaulted(given.disableParsing, JsBoolean(FALSE)).b,
                      !.given = given]
      [] name = "coda_update_row" ->
            [a EXCEPT !.input = JsObject(<<Property("cells", given.cells)>>),
                      !.flag = Defaulted(given.disableParsing, JsBoolean(FALSE)).b,
                      !.given = given]
      [] name = "coda_delete_rows" ->
            [a EXCEPT !.input = given.rowIds, !.given = given]
      [] name = "coda_trigger_automation" ->
            [a EXCEPT !.input = IF JsTruthy(given.message)
                                THEN JsObject(<<Property("message", given.message)>>)
                                ELSE JsUndefined,
                      !.given = given]
      [] name = "coda_add_permission" ->
            [a EXCEPT !.input =
                          JsObject(<<Property("access", given.access),
                                     Property("principal", PrincipalOf(given)),
                                     Property("suppressEmail",
                                              Defaulted(given.suppressEmail,
                                                        JsBoolean(FALSE)))>>),
                      !.given = given]
      [] OTHER -> [a EXCEPT !.given = given]

\* the parameters of tool calls
CellOf(column, value) ==
    JsObject(<<Property("column", JsText(column)), Property("value", JsText(value))>>)
RowOf(cells) == JsObject(<<Property("cells", JsArrayOf(cells))>>)

\* one row, and two rows that are equal and whose cells are not in
\* alphabetical order
OneRow == JsArrayOf(<<RowOf(<<CellOf("Name", "Ada")>>)>>)
TwoEqualRows ==
    JsArrayOf(<<RowOf(<<CellOf("b", "2"), CellOf("a", "1")>>),
                RowOf(<<CellOf("b", "2"), CellOf("a", "1")>>)>>)

RowsGiven == {OneRow, TwoEqualRows}

KeyColumnsGiven ==
    {JsUndefined, JsArrayOf(<<>>), JsArrayOf(<<JsText("b"), JsText("a")>>)}

FlagGiven == {JsUndefined, JsBoolean(FALSE), JsBoolean(TRUE)}

\* one call of each tool
PlainParametersOf(name) ==
    CASE name = "coda_upsert_rows" ->
            {[rows |-> OneRow, keyColumns |-> JsUndefined,
              disableParsing |-> JsUndefined]}
      [] name = "coda_update_row" ->
            {[cells |-> JsArrayOf(<<CellOf("Name", "Ada")>>),
              disableParsing |-> JsUndefined]}
      [] name = "coda_delete_rows" -> {[rowIds |-> JsArrayOf(<<JsText("i-1")>>)]}
      [] name = "coda_trigger_automation" -> {[message |-> JsUndefined]}
      [] name = "coda_add_permission" ->
            {[access |-> JsText("write"), principalType |-> JsText("anyone"),
              email |-> JsUndefined, domain |-> JsUndefined,
              suppressEmail |-> JsUndefined]}
      [] OTHER -> {NoParameters}

\* the calls of each tool that pass its schema
AnyParametersOf(name) ==
    CASE name = "coda_upsert_rows" ->
            [rows : RowsGiven, keyColumns : KeyColumnsGiven, disableParsing : FlagGiven]
      [] name = "coda_update_row" ->
            [cells : {JsArrayOf(<<>>), JsArrayOf(<<CellOf("Name", "Ada")>>)},
             disableParsing : FlagGiven]
      [] name = "coda_delete_rows" ->
            [rowIds : {JsArrayOf(<<JsText("i-1")>>),
                       JsArrayOf(<<JsText("i-2"), JsText("i-1")>>)}]
      [] name = "coda_trigger_automation" ->
            [message : {JsUndefined, JsText(""), JsText("go")}]
      [] name = "coda_add_permission" ->
            [access : {JsText("write")},
             principalType : {JsText("email"), JsText("domain"), JsText("anyone")},
             email : {JsUndefined, JsText("ada@example.com")},
             domain : {JsUndefined, JsText(""), JsText("example.com")},
             suppressEmail : {JsUndefined, JsBoolean(TRUE)}]
      [] OTHER -> {NoParameters}

\* A thrown value is an Error, a record with a name and a message, or any
\* other value, a record named NotAnError that holds the value.
NotAnError == "<not an Error>"
ThrownValue(v) == [name |-> NotAnError, message |-> Undefined, value |-> v]
IsError(thrown) == thrown.name # NotAnError

\* String(error), of a value that is not an Error
StringOfThrown(thrown) ==
    CASE thrown.value.t = "undefined" -> "undefined"
      [] thrown.value.t = "null"      -> "null"
      [] OTHER                        -> JsString(thrown.value)

\* utils/errors.ts: error instanceof CodaApiError
IsCodaApiError(thrown) == thrown.name = "CodaApiError"

\* utils/errors.ts: error.retryable, the 5xx class of CodaApiError
Retryable(thrown) == thrown.status >= 500

\* utils/errors.ts: formatErrorForLogging(error)
formatErrorForLogging(thrown) ==
    IF IsError(thrown)
    THEN [name |-> thrown.name, message |-> thrown.message]
    ELSE [name |-> "UnknownError", message |-> StringOfThrown(thrown)]

\* A tool response: isError is FALSE where the property is absent; error is
\* the message of an error envelope; data is what a success envelope shows.
ToolResponse(isError, error, details, data) ==
    [isError |-> isError, error |-> error, details |-> details, data |-> data]

NoDetails == [name |-> Undefined, message |-> Undefined]

\* a formatError that marks every CodaApiError retryable
formatErrorAlwaysRetryable(thrown) ==
    LET errorInfo == formatErrorForLogging(thrown)
        message ==
            IF IsCodaApiError(thrown) THEN "Error: " \o thrown.message \o " (retryable)"
            ELSE IF IsError(thrown) THEN "Error: " \o thrown.message
            ELSE "Error: " \o StringOfThrown(thrown)
    IN  ToolResponse(TRUE, message, errorInfo, JsonUndefined)

\* formatError(error)
formatError(thrown) ==
    LET errorInfo == formatErrorForLogging(thrown)
        message ==
            IF IsCodaApiError(thrown)
            THEN "Error: " \o thrown.message
                    \o (IF Retryable(thrown) THEN " (retryable)" ELSE "")
            ELSE IF IsError(thrown) THEN "Error: " \o thrown.message
            ELSE "Error: " \o StringOfThrown(thrown)
    IN  ToolResponse(TRUE, message, errorInfo, JsonUndefined)

\* the catch clause of a handler: formatError, but for coda_test_connection
CatchClause(name, thrown) ==
    IF name = "coda_test_connection"
    THEN ToolResponse(TRUE,
                      "Connection failed: "
                          \o (IF IsError(thrown) THEN thrown.message ELSE "Unknown error"),
                      NoDetails, JsonUndefined)
    ELSE formatError(thrown)

\* the TypeError of a handler that reads a property of the client's result
\* where there is none: result.id and result.addedRowIds of undefined or
\* null, result.rowIds.length without rowIds
ResultTypeError(name, value) ==
    CASE name \in {"coda_upsert_rows", "coda_update_row", "coda_delete_row"} ->
            value.kind \in {"undefined", "null"}
      [] name = "coda_delete_rows" ->
            value.kind \in {"undefined", "null"} \/ "rowIds" \notin DOMAIN value
      [] OTHER -> FALSE

PropertyTypeError ==
    [name |-> "TypeError", message |-> "Cannot read properties of undefined"]

\* { ...base, ...value }: the properties of base, those of value over them;
\* spreading undefined or null adds nothing
Spread(base, value) ==
    IF value.kind # "object" THEN base
    ELSE [f \in DOMAIN base \cup DOMAIN value |->
            IF f \notin DOMAIN value THEN base[f]
            ELSE IF f \in {"message", "error"} /\ value[f] = Undefined /\ f \in DOMAIN base
            THEN base[f]
            ELSE value[f]]

\* result.<name>.length
LengthOf(value, name) == Len(value[name].elems)

\* the message a write tool puts before the client's result
SuccessMessage(name, value) ==
    CASE name = "coda_upsert_rows" ->
            "Upserted "
               \o ToString(IF "addedRowIds" \in DOMAIN value
                           THEN LengthOf(value, "addedRowIds") ELSE 0)
               \o " rows"
      [] name = "coda_update_row" -> "Row " \o TemplateText(Prop(value, "id")) \o " updated"
      [] name = "coda_delete_row" -> "Row " \o TemplateText(Prop(value, "id")) \o " deleted"
      [] name = "coda_delete_rows" ->
            "Deleted " \o ToString(LengthOf(value, "rowIds")) \o " rows"
      [] name = "coda_push_button" -> "Button pushed"
      [] name = "coda_trigger_automation" -> "Automation triggered"

\* the success envelope: { success: true, message, ...result } of a write
\* tool, else the client's result with format 'json'
SuccessResponse(name, value) ==
    ToolResponse(FALSE, Undefined, NoDetails,
                 IF name \in WriteTools
                 THEN Spread([kind |-> "object", error |-> Undefined, success |-> TRUE,
                              message |-> SuccessMessage(name, value)], value)
                 ELSE value)

\* a handler without its catch clause
HandlerReturnUncaught(name, outcome) ==
    IF outcome.kind = "throw" THEN Throw(outcome.error)
    ELSE IF ResultTypeError(name, outcome.value) THEN Throw(PropertyTypeError)
    ELSE Return(SuccessResponse(name, outcome.value))

\* how a handler completes once its client operation has: try { ... return
\* success } catch (error) { return formatError(error) }
HandlerReturn(name, outcome) ==
    IF outcome.kind = "throw" THEN Return(CatchClause(name, outcome.error))
    ELSE IF ResultTypeError(name, outcome.value)
    THEN Return(CatchClause(name, PropertyTypeError))
    ELSE Return(SuccessResponse(name, outcome.value))

\* the tool handler as it stands after a step of the client: returned if its
\* operation has completed, else awaiting it; calls are the fetch calls
\* started since the handler was entered
ToolState(name, c, calls) ==
    IF last'.kind = "done"
    THEN [kind       |-> "returned",
          name       |-> name,
          client     |-> c,
          invoked    |-> <<ToolOp(name)>>,
          calls      |-> calls,
          failed     |-> last'.outcome.kind = "throw",
          completion |-> HandlerReturn(name, last'.outcome)]
    ELSE [kind       |-> "running",
          name       |-> name,
          client     |-> c,
          invoked    |-> <<ToolOp(name)>>,
          calls      |-> calls,
          failed     |-> FALSE,
          completion |-> Return(ToolResponse(FALSE, Undefined, NoDetails, JsonUndefined))]

ToolResponses ==
    {[status |-> 200, retryAfter |-> NoRetryAfter, body |-> "{}"],
     [status |-> 200, retryAfter |-> NoRetryAfter, body |-> UserBody],
     [status |-> AcceptedStatus, retryAfter |-> NoRetryAfter, body |-> AckBody],
     [status |-> AcceptedStatus, retryAfter |-> NoRetryAfter, body |-> DeleteAckBody],
     [status |-> NoContentStatus, retryAfter |-> NoRetryAfter, body |-> ""],
     [status |-> UnauthorizedStatus, retryAfter |-> NoRetryAfter, body |-> "{}"],
     [status |-> RateLimitStatus, retryAfter |-> NoRetryAfter, body |-> ""],
     [status |-> 400, retryAfter |-> NoRetryAfter, body |-> "{\"message\":\"m\"}"],
     [status |-> 500, retryAfter |-> NoRetryAfter, body |-> "<html>Bad Gateway</html>"],
     [status |-> 200, retryAfter |-> NoRetryAfter, body |-> "<html>Bad Gateway</html>"]}

\* the values a catch clause may be handed
ThrownValues ==
    {ThrownValue(JsText("boom")), ThrownValue(JsUndefined), ThrownValue(JsNull),
     ThrownValue(JsNumber(0)),
     [name |-> "Error", message |-> "unexpected"],
     AuthenticationError("Authentication failed. Check your API credentials."),
     RateLimitError("Rate limit exceeded", Num(DefaultRetryAfter)),
     CodaApiError("API error: 500", 500),
     CodaApiError("m", 400)}

\* either nothing has happened yet, or a value has been thrown inside the
\* try block of some handler
InitTools ==
    /\ clients = <<>>
    /\ ctorLog = <<>>
    /\ inflight = {}
    /\ last = NoLast
    /\ http = NoHttp
    /\ nPassed = 0
    /\ tool = NoTool
    /\ log = <<>>
    /\ calc \in {NoCalc} \cup
                {[kind |-> "thrown", name |-> name, thrown |-> thrown,
                  completion |-> Throw(thrown)] :
                    name \in ToolNames, thrown \in ThrownValues}

ConstructTools ==
    /\ calc = NoCalc
    /\ \E cr \in ClientCredentials : CreateClient(cr, MaxClients)
    /\ UNCHANGED <<tool, log, calc>>

\* tools/call: the handler runs up to the await of its client operation
ToolCall ==
    /\ inflight = {}
    /\ tool.kind # "running"
    /\ \E c \in 1..Len(clients), name \in ToolNames :
          \E a \in ArgsOf(ToolOp(name)), given \in PlainParametersOf(name) :
              /\ Invoke(c, ToolOp(name), HandlerArgs(name, a, given))
              /\ tool' = ToolState(name, c, inflight' \ inflight)
    /\ UNCHANGED <<log, calc>>

\* fetch resolves, the operation completes and the handler returns
ToolAnswer ==
    /\ tool.kind = "running"
    /\ \E call \in inflight, resp \in ToolResponses :
          /\ Respond(call, resp)
          /\ tool' = ToolState(tool.name, tool.client,
                                tool.calls \cup (inflight' \ (inflight \ {call})))
    /\ UNCHANGED <<log, calc>>

ToolReject ==
    /\ tool.kind = "running"
    /\ \E call \in inflight :
          /\ FetchRejects(call)
          /\ tool' = ToolState(tool.name, tool.client,
                                tool.calls \cup (inflight' \ (inflight \ {call})))
    /\ UNCHANGED <<log, calc>>

\* the catch clause of a handler, on any value thrown inside its try block
CatchAny ==
    /\ calc.kind = "thrown"
    /\ calc' = [kind       |-> "caught",
                name       |-> calc.name,
                thrown     |-> calc.thrown,
                completion |-> HandlerReturn(calc.name, Throw(calc.thrown))]
    /\ UNCHANGED <<clients, ctorLog, inflight, last, http, nPassed, tool, log>>

NextTools == ConstructTools \/ ToolCall \/ ToolAnswer \/ ToolReject \/ CatchAny

SpecTools == InitTools /\ [][NextTools]_vars

-----------------------------------------------------------------------------
(* The write tools and coda_add_permission, on every call that passes their
   schema and every answer to an accepted or a refused mutation *)

UpdatedAckBody ==
    "{\"requestId\":\"req-3\",\"addedRowIds\":[],\"updatedRowIds\":[\"i-7\",\"i-3\"]}"
RowAckBody == "{\"requestId\":\"req-4\",\"id\":\"i-1\"}"

WriteResponses ==
    {[status |-> 200, retryAfter |-> NoRetryAfter, body |-> "{}"],
     [status |-> AcceptedStatus, retryAfter |-> NoRetryAfter, body |-> AckBody],
     [status |-> AcceptedStatus, retryAfter |-> NoRetryAfter, body |-> UpdatedAckBody],
     [status |-> AcceptedStatus, retryAfter |-> NoRetryAfter, body |-> DeleteAckBody],
     [status |-> AcceptedStatus, retryAfter |-> NoRetryAfter, body |-> RowAckBody],
     [status |-> NoContentStatus, retryAfter |-> NoRetryAfter, body |-> ""],
     [status |-> RateLimitStatus, retryAfter |-> NoRetryAfter, body |-> ""]}

WriteCredentials == [apiKey : {Undefined, "K1"}, baseUrl : {Undefined}]

ConstructWrite ==
    /\ \E cr \in WriteCredentials : CreateClient(cr, MaxClients)
    /\ UNCHANGED <<tool, log, calc>>

WriteCall ==
    /\ inflight = {}
    /\ tool.kind # "running"
    /\ \E c \in 1..Len(clients), name \in WriteTools \cup {"coda_add_permission"} :
          \E given \in AnyParametersOf(name) :
              /\ Invoke(c, ToolOp(name), HandlerArgs(name, PlainArgs, given))
              /\ tool' = ToolState(name, c, inflight' \ inflight)
    /\ UNCHANGED <<log, calc>>

WriteAnswer ==
    /\ tool.kind = "running"
    /\ \E call \in inflight, resp \in WriteResponses :
          /\ Respond(call, resp)
          /\ tool' = ToolState(tool.name, tool.client,
                                tool.calls \cup (inflight' \ (inflight \ {call})))
    /\ UNCHANGED <<log, calc>>

NextWrite == ConstructWrite \/ WriteCall \/ WriteAnswer

SpecWrite == Init /\ [][NextWrite]_vars

-----------------------------------------------------------------------------
(* The client, one operation at a time, on every identifier *)

CallAnyId ==
    /\ inflight = {}
    /\ \E c \in 1..Len(clients), op \in Ops : \E a \in AnyIdArgsOf(op) : Invoke(c, op, a)
    /\ Untracked

AnswerOk ==
    /\ \E call \in inflight :
          Respond(call, [status |-> 200, retryAfter |-> NoRetryAfter, body |-> "{}"])
    /\ Untracked

NextPath == Construct \/ CallAnyId \/ AnswerOk

SpecPath == Init /\ [][NextPath]_vars

-----------------------------------------------------------------------------
(* buildQueryString, evaluated on every parameter object *)

InitQuery ==
    /\ clients = <<>>
    /\ ctorLog = <<>>
    /\ inflight = {}
    /\ last = NoLast
    /\ http = NoHttp
    /\ nPassed = 0
    /\ tool = NoTool
    /\ log = <<>>
    /\ calc \in {[kind |-> "called", params |-> p, result |-> Undefined] :
                    p \in ParamObjects}

BuildQuery ==
    /\ calc.kind = "called"
    /\ calc' = [kind   |-> "returned",
                params |-> calc.params,
                result |-> buildQueryString(ObjectEntries(calc.params))]
    /\ UNCHANGED <<clients, ctorLog, inflight, last, http, nPassed, tool, log>>

NextQuery == BuildQuery

SpecQuery == InitQuery /\ [][NextQuery]_vars

-----------------------------------------------------------------------------
(* parseTenantCredentials, evaluated on the headers of every request, more
   than once on each *)

\* what headers.get returns for each of the two headers: Null for a header
\* the request does not carry
AnyKeyHeader == {Null, "", "K1", "K2", "0", "false", "null", "undefined"}
AnyBaseUrlHeader ==
    {Null, "", "https://tenant.example/v1", "http://localhost:8787", "0"}

InitParse ==
    /\ clients = <<>>
    /\ ctorLog = <<>>
    /\ inflight = {}
    /\ last = NoLast
    /\ http = NoHttp
    /\ nPassed = 0
    /\ tool = NoTool
    /\ log = <<>>
    /\ calc \in {[kind |-> "request", headers |-> h, results |-> <<>>] :
                    h \in [apiKey : AnyKeyHeader, baseUrl : AnyBaseUrlHeader]}

ParseCredentials ==
    /\ calc.kind = "request"
    /\ Len(calc.results) < MaxParses
    /\ calc' = [calc EXCEPT !.results = Append(@, parseTenantCredentials(calc.headers))]
    /\ UNCHANGED <<clients, ctorLog, inflight, last, http, nPassed, tool, log>>

NextParse == ParseCredentials

SpecParse == InitParse /\ [][NextParse]_vars

-----------------------------------------------------------------------------
(* Two or more clients with their calls in flight at the same time *)

IsoOps == {"whoami", "createDoc", "deleteDoc", "testConnection"}

IsoResponses ==
    {[status |-> st, retryAfter |-> NoRetryAfter, body |-> "{}"] :
        st \in {200, 204, 401, 500}}

ConstructIso ==
    /\ \E cr \in DirectCredentials : CreateClient(cr, MaxIsoClients)
    /\ Untracked

CallIso ==
    /\ \E c \in 1..Len(clients), op \in IsoOps : \E a \in ArgsOf(op) : Invoke(c, op, a)
    /\ Untracked

AnswerIso ==
    /\ \E call \in inflight, resp \in IsoResponses : Respond(call, resp)
    /\ Untracked

NextIso == ConstructIso \/ CallIso \/ AnswerIso \/ Reject

SpecIso == Init /\ [][NextIso]_vars

-----------------------------------------------------------------------------
(* index.ts: the worker's fetch handler *)

Paths == {"/health", "/mcp", "/sse", "/"}
Methods == {"GET", "POST"}

\* Every combination of the two credential headers on POST /mcp; on the
\* other routes, which read no header, a request without and one with a key.
Requests ==
    [path : {"/mcp"}, method : {"POST"},
     headers : [apiKey : HeaderValues, baseUrl : BaseUrlHeaderValues]]
    \cup
    {[path |-> p, method |-> m, headers |-> [apiKey |-> k, baseUrl |-> Null]] :
        p \in Paths, m \in Methods, k \in {Null, "K1"}}

\* the statuses the MCP handler of the agents library may answer with
McpHandlerStatuses == {200, 400}

\* a server that keeps the first client built and reuses it
createStatelessServerCached(cs, credentials) ==
    IF cs # <<>> THEN cs ELSE createCodaClient(cs, credentials)

\* createStatelessServer(credentials): a new server around a new client
createStatelessServer(cs, credentials) == createCodaClient(cs, credentials)

\* README.md, 'Available Tools': the tool names the documentation advertises
ReadmeTools ==
    {"coda_list_docs", "coda_get_doc", "coda_create_doc", "coda_list_pages",
     "coda_get_page", "coda_create_page", "coda_update_page", "coda_list_tables",
     "coda_get_table", "coda_list_rows", "coda_get_row", "coda_insert_rows",
     "coda_update_row", "coda_delete_row", "coda_resolve_formula",
     "coda_list_controls", "coda_get_control", "coda_list_automations",
     "coda_trigger_automation", "coda_list_permissions", "coda_add_permission",
     "coda_get_publishing_info", "coda_update_publishing"}

\* the tools list in the body of the default endpoint's answer
DefaultResponseTools ==
    {"coda_list_docs", "coda_get_doc", "coda_create_doc", "coda_delete_doc",
     "coda_list_pages", "coda_get_page", "coda_create_page", "coda_update_page",
     "coda_list_tables", "coda_get_table", "coda_list_columns", "coda_get_column",
     "coda_list_rows", "coda_get_row", "coda_upsert_rows", "coda_update_row",
     "coda_delete_row", "coda_delete_rows", "coda_push_button",
     "coda_list_formulas", "coda_get_formula", "coda_list_controls",
     "coda_get_control", "coda_list_automations", "coda_trigger_automation",
     "coda_get_sharing_metadata", "coda_list_permissions", "coda_add_permission",
     "coda_delete_permission", "coda_get_acl_settings", "coda_update_acl_settings",
     "coda_list_categories", "coda_publish_doc", "coda_unpublish_doc",
     "coda_whoami", "coda_resolve_browser_link", "coda_get_mutation_status",
     "coda_test_connection"}

\* An exchange; tools are the tool names it shows: those registered on the
\* server built for an /mcp request, those listed in the default answer.
Exchange(kind, req, status, validation, required, built, client) ==
    [kind |-> kind, req |-> req, status |-> status, validation |-> validation,
     required_headers |-> required, built |-> built, client |-> client,
     tools |-> CASE kind = "mcp"     -> ToolNames
                 [] kind = "default" -> DefaultResponseTools
                 [] OTHER            -> {}]

NotValidated == [kind |-> "skipped"]

\* fetch(request, env, ctx), up to the hand-over to the MCP handler
Fetch(req) ==
    IF req.path = "/health"
    THEN /\ http' = Exchange("health", req, 200, NotValidated, <<>>, 0, 0)
         /\ UNCHANGED <<clients, ctorLog, inflight, last, nPassed>>
    ELSE IF req.path = "/mcp" /\ req.method = "POST"
    THEN LET credentials == parseTenantCredentials(req.headers)
             validation  == validateCredentials(credentials)
         IN  IF validation.kind = "throw"
             THEN /\ http' = Exchange("unauthorized", req, UnauthorizedStatus,
                                      validation, <<"X-Coda-API-Key">>, 0, 0)
                  /\ UNCHANGED <<clients, ctorLog, inflight, last, nPassed>>
             ELSE /\ Len(clients) < MaxServers
                  /\ clients' = createStatelessServer(clients, credentials)
                  /\ ctorLog' = IF Len(clients') > Len(clients)
                                THEN Append(ctorLog, credentials) ELSE ctorLog
                  /\ nPassed' = nPassed + 1
                  /\ \E handlerStatus \in McpHandlerStatuses :
                        http' = Exchange("mcp", req, handlerStatus, validation, <<>>,
                                         Len(clients') - Len(clients), Len(clients'))
                  /\ UNCHANGED <<inflight, last>>
    ELSE IF req.path = "/sse"
    THEN /\ http' = Exchange("sse", req, 501, NotValidated, <<>>, 0, 0)
         /\ UNCHANGED <<clients, ctorLog, inflight, last, nPassed>>
    ELSE /\ http' = Exchange("default", req, 200, NotValidated, <<>>, 0, 0)
         /\ UNCHANGED <<clients, ctorLog, inflight, last, nPassed>>

Inbound ==
    /\ \E req \in Requests : Fetch(req)
    /\ Untracked

\* the tool calls the MCP handler makes on the request's client
WorkerOps == {"whoami", "createDoc"}
WorkerResponses ==
    {[status |-> st, retryAfter |-> NoRetryAfter, body |-> "{}"] : st \in {200, 401}}

CallWorker ==
    /\ \E c \in 1..Len(clients), op \in WorkerOps : \E a \in ArgsOf(op) : Invoke(c, op, a)
    /\ Untracked

AnswerWorker ==
    /\ \E call \in inflight, resp \in WorkerResponses : Respond(call, resp)
    /\ Untracked

NextWorker == Inbound \/ CallWorker \/ AnswerWorker

SpecWorker == Init /\ [][NextWorker]_vars

-----------------------------------------------------------------------------
(* Properties *)

\* the outbound calls a state shows: those in flight and the one just answered
OutboundCalls ==
    inflight \cup (IF last.kind = "done" /\ last.sent THEN {last.call} ELSE {})

\* an operation has just completed after fetch answered with a response
Answered == last.kind = "done" /\ last.sent /\ last.resp.status # 0

\* the base URL the construction contract gives for credentials cr
EffectiveBase(cr) == IF Truthy(cr.baseUrl) THEN cr.baseUrl ELSE API_BASE_URL

\* C1: with several clients built from different keys and their operations
\* interleaved, every outbound call of a client carries 'Bearer ' followed by
\* the key its own constructor was given and targets its own base URL, and
\* carries the key of no other client.
C1_CredentialIsolation ==
    \A call \in OutboundCalls :
        LET given == ctorLog[call.client]
        IN  /\ call.headers.Authorization = "Bearer " \o given.apiKey
            /\ call.url = EffectiveBase(given) \o Endpoint(call.op, call.args)
            /\ \A k \in 1..Len(ctorLog) :
                  (Truthy(ctorLog[k].apiKey) /\ ctorLog[k].apiKey # given.apiKey)
                  => call.headers.Authorization # "Bearer " \o ctorLog[k].apiKey

\* two clients with different keys and different base URLs each have a call
\* in flight at the same time
C1_Witness ==
    \E x \in inflight, y \in inflight :
        /\ x.client # y.client
        /\ ctorLog[x.client].apiKey # ctorLog[y.client].apiKey
        /\ ctorLog[x.client].baseUrl # ctorLog[y.client].baseUrl

\* C2: every POST /mcp request that passes validation builds exactly one new
\* client, from that request's own header values; the clients built are as
\* many as the requests that passed, so none is reused for another request,
\* and every call of a client carries the key of the request that built it.
C2_FreshClientPerRequest ==
    /\ Len(clients) = nPassed
    /\ Len(ctorLog) = nPassed
    /\ http.kind = "mcp" =>
          /\ http.built = 1
          /\ http.client = Len(clients)
          /\ clients[http.client].credentials.apiKey = http.req.headers.apiKey
          /\ clients[http.client].credentials.baseUrl =
                (IF http.req.headers.baseUrl \in {Null, ""}
                 THEN Undefined ELSE http.req.headers.baseUrl)
    /\ \A call \in OutboundCalls :
          call.headers.Authorization = "Bearer " \o ctorLog[call.client].apiKey

\* a second request with another key has been served while a call of the
\* first request's client is still in flight
C2_Witness ==
    /\ http.kind = "mcp"
    /\ nPassed = 2
    /\ ctorLog[1].apiKey # ctorLog[2].apiKey
    /\ \E call \in inflight : call.client = 1

\* C3: a POST /mcp request whose X-Coda-API-Key header is missing or empty is
\* answered 401 with required_headers listing X-Coda-API-Key, validation
\* having failed before any construction: no client is built for it, so no
\* client without a key exists to issue a call.
C3_FailClosed ==
    /\ (/\ http.kind # "none"
        /\ http.req.path = "/mcp"
        /\ http.req.method = "POST"
        /\ http.req.headers.apiKey \in {Null, ""})
       => /\ http.status = 401
          /\ http.required_headers = <<"X-Coda-API-Key">>
          /\ http.validation.kind = "throw"
          /\ http.built = 0
          /\ http.client = 0
    /\ Len(clients) = nPassed
    /\ \A k \in 1..Len(clients) : Truthy(clients[k].credentials.apiKey)
    /\ \A call \in OutboundCalls : Truthy(ctorLog[call.client].apiKey)

\* a request with an empty key header is refused while an earlier request's
\* client exists and has a call in flight
C3_Witness ==
    /\ http.kind = "unauthorized"
    /\ http.req.headers.apiKey = ""
    /\ Len(clients) = 1
    /\ inflight # {}

\* C4: validateCredentials fails with an AuthenticationError-kind signal when
\* apiKey is absent, and returns silently when it is present.
C4_ValidateSignalsAuthenticationError ==
    (http.kind # "none" /\ http.validation.kind # "skipped") =>
        IF http.req.headers.apiKey \in {Null, ""}
        THEN /\ http.validation.kind = "throw"
             /\ http.validation.error.name = "AuthenticationError"
        ELSE http.validation.kind = "return"

\* the client of the operation that just completed was built without a key
KeylessDone == last.kind = "done" /\ ~Truthy(ctorLog[last.client].apiKey)

\* no call of a client built without a key is in flight
NoKeylessCall == \A call \in inflight : Truthy(ctorLog[call.client].apiKey)

\* C5 (as stated): every operation of a client built without a key fails with
\* AuthenticationError, and no outbound call is issued.
C5_EveryOperationFails ==
    /\ NoKeylessCall
    /\ KeylessDone =>
          /\ ~last.sent
          /\ last.outcome.kind = "throw"
          /\ last.outcome.error.name = "AuthenticationError"

\* C5 (amended): on a client built without a key, request fails with
\* AuthenticationError before fetch is started, so no outbound call is issued;
\* every operation but testConnection fails with that AuthenticationError, and
\* testConnection returns connected = false with the error's message.
C5_KeylessClientIssuesNothing ==
    /\ NoKeylessCall
    /\ KeylessDone =>
          /\ ~last.sent
          /\ last.request.kind = "throw"
          /\ last.request.error.name = "AuthenticationError"
          /\ IF last.op = "testConnection"
             THEN last.outcome = Return(Connection(FALSE, last.request.error.message))
             ELSE last.outcome = last.request

\* testConnection has completed on a client built with an empty key
C5_Witness ==
    /\ KeylessDone
    /\ ctorLog[last.client].apiKey = ""
    /\ last.op = "testConnection"

\* C6: every outbound call carries Authorization = 'Bearer ' followed by the
\* key given at construction, and Content-Type application/json when it has a
\* body; no operation passes an Authorization header of its own.
C6_AuthorizationOnEveryCall ==
    /\ \A call \in OutboundCalls :
          /\ Truthy(ctorLog[call.client].apiKey)
          /\ call.headers.Authorization = "Bearer " \o ctorLog[call.client].apiKey
          /\ call.hasBody => call.headers.ContentType = "application/json"
    /\ \A op \in Ops : OptionsHeaders(op).Authorization = Undefined

\* a call with a body is in flight
C6_Witness ==
    \E call \in inflight : call.hasBody /\ call.op = "createDoc" /\ call.method = "POST"

\* the number a Retry-After text stands for, 60 when it stands for none
ExpectedRetryAfter(h) ==
    IF h.present /\ ~parseInt(h.text).nan THEN parseInt(h.text) ELSE Num(60)

\* C7: a 429 response makes request fail with RateLimitError whose retry-after
\* is the integer parsed from the Retry-After header, and 60 when the header
\* is absent or does not parse as a number.
C7_RetryAfterOrDefault ==
    (Answered /\ last.resp.status = 429) =>
        /\ last.request.kind = "throw"
        /\ last.request.error.name = "RateLimitError"
        /\ last.request.error.retryAfter = ExpectedRetryAfter(last.resp.retryAfter)

\* C8: a 401 or 403 response makes request fail with AuthenticationError
\* whatever the body, never with CodaApiError.
C8_AuthenticationFailure ==
    (Answered /\ last.resp.status \in {401, 403}) =>
        /\ last.request.kind = "throw"
        /\ last.request.error.name = "AuthenticationError"
        /\ ~last.bodyRead

\* a 403 whose body carries a message has been answered
C8_Witness ==
    /\ Answered
    /\ last.resp.status = 403
    /\ last.resp.body = "{\"message\":\"m\"}"

\* a response outside the success range that is not 429, 401 or 403
GenericFailure ==
    /\ Answered
    /\ ~(last.resp.status >= 200 /\ last.resp.status <= 299)
    /\ last.resp.status \notin {429, 401, 403}

\* the message of C9 as stated: a field counts as soon as the body has it
MessageIfPresent(status, body) ==
    LET parsed == JSONparse(body)
    IN  IF parsed.ok /\ parsed.value.kind = "object" /\ parsed.value.message # Undefined
        THEN parsed.value.message
        ELSE IF parsed.ok /\ parsed.value.kind = "object" /\ parsed.value.error # Undefined
        THEN parsed.value.error
        ELSE "API error: " \o ToString(status)

\* the message of C9 as amended: a field counts when it is a non-empty string
MessageIfNonEmpty(status, body) ==
    LET parsed == JSONparse(body)
    IN  IF parsed.ok /\ parsed.value.kind = "object" /\ Truthy(parsed.value.message)
        THEN parsed.value.message
        ELSE IF parsed.ok /\ parsed.value.kind = "object" /\ Truthy(parsed.value.error)
        THEN parsed.value.error
        ELSE "API error: " \o ToString(status)

C10_NoContentReturnsUndefined ==
    (Answered /\ last.resp.status = 204) =>
        /\ last.request = Return(JsonUndefined)
        /\ ~last.bodyRead

\* a 204 with a non-empty body has been answered
C10_Witness ==
    /\ Answered
    /\ last.resp.status = 204
    /\ last.resp.body = "{\"message\":\"m\"}"
    /\ last.request.kind = "return"

\* the operations that change the remote resource: those with a verb of their own
WriteOps == {op \in Ops : OptionsMethod(op) # Undefined}

\* a write operation was answered 202 with a body that is JSON
AcceptedWrite ==
    /\ Answered
    /\ last.resp.status = AcceptedStatus
    /\ last.op \in WriteOps
    /\ JSONparse(last.resp.body).ok

\* C11 as stated: on a 202 request returns the parsed body unmodified, and
\* every write operation returns that value, field for field.
C11_WriteReturnsAcknowledgment ==
    AcceptedWrite =>
        /\ last.request = Return(JSONparse(last.resp.body).value)
        /\ last.outcome = Return(JSONparse(last.resp.body).value)

\* C11, amended: on a 202 request returns the parsed body unmodified; every
\* write operation returns that value field for field, except deleteDoc,
\* deletePermission, publishDoc and unpublishDoc, which discard it and
\* return nothing.
C11_WriteReturnsAcknowledgmentUnlessVoid ==
    /\ (Answered /\ last.resp.status = AcceptedStatus /\ JSONparse(last.resp.body).ok) =>
            last.request = Return(JSONparse(last.resp.body).value)
    /\ (AcceptedWrite /\ last.op \notin VoidOps) =>
            last.outcome = Return(JSONparse(last.resp.body).value)
    /\ (AcceptedWrite /\ last.op \in VoidOps) =>
            last.outcome = Return(JsonUndefined)

\* upsertRows was answered 202 and returned the request id and the row ids
\* of the body, and nothing else
C11_Witness ==
    /\ AcceptedWrite
    /\ last.op = "upsertRows"
    /\ last.resp.body = AckBody
    /\ last.outcome.kind = "return"
    /\ last.outcome.value.requestId = "req-1"
    /\ last.outcome.value.addedRowIds.elems = <<"i-2", "i-1">>
    /\ DOMAIN last.outcome.value =
          {"kind", "message", "error", "requestId", "addedRowIds"}

\* every operation named list...
ListingOps == ListOps \cup {"listCategories"}

\* a listing operation was answered 2xx with a body that is a JSON object
Listed ==
    /\ Answered
    /\ last.op \in ListingOps
    /\ ResponseOk(last.resp.status)
    /\ JSONparse(last.resp.body).ok
    /\ JSONparse(last.resp.body).value.kind = "object"

\* the upstream payload included a non-empty nextPageToken
NonEmptyToken(body) ==
    LET payload == JSONparse(body).value
    IN  /\ "nextPageToken" \in DOMAIN payload
        /\ payload.nextPageToken # Null
        /\ payload.nextPageToken # ""

\* the hasMore of a returned value: not true where there is none
HasMore(value) == "hasMore" \in DOMAIN value /\ value.hasMore

\* C12 as stated: every listing operation returns hasMore = true exactly when
\* the upstream payload included a non-empty nextPageToken.
C12_HasMoreIffToken ==
    Listed =>
        /\ last.outcome.kind = "return"
        /\ HasMore(last.outcome.value) <=> NonEmptyToken(last.resp.body)

\* C12, amended: every listing operation other than listCategories returns
\* hasMore = true exactly when the upstream payload included a non-empty
\* nextPageToken (absent, null and empty tokens give false); listCategories
\* returns the items alone, without a hasMore.
C12_HasMoreIffTokenUnlessCategories ==
    /\ (Listed /\ last.op \in ListOps) =>
            /\ last.outcome.kind = "return"
            /\ "hasMore" \in DOMAIN last.outcome.value
            /\ last.outcome.value.hasMore <=> NonEmptyToken(last.resp.body)
    /\ (Listed /\ last.op = "listCategories") =>
            /\ last.outcome.kind = "return"
            /\ "hasMore" \notin DOMAIN last.outcome.value

\* listPermissions was answered an envelope whose token is the empty string,
\* and returned hasMore = false
C12_Witness ==
    /\ Listed
    /\ last.op = "listPermissions"
    /\ last.resp.body = EnvelopeEmptyToken
    /\ last.outcome.kind = "return"
    /\ last.outcome.value.nextPageToken = ""
    /\ ~last.outcome.value.hasMore

\* a listing operation was answered 2xx with an items envelope
ListedEnvelope == Listed /\ last.resp.body \in Envelopes

\* the value is the Paginated Response of the payload: the items in the
\* payload's order, and the payload's token and link
IsPaginatedOf(value, payload) ==
    /\ value.kind = "paginated"
    /\ DOMAIN value = {"kind", "items", "nextPageToken", "nextPageLink", "hasMore"}
    /\ value.items = payload.items
    /\ value.nextPageToken =
          (IF "nextPageToken" \in DOMAIN payload THEN payload.nextPageToken ELSE Undefined)
    /\ value.nextPageLink =
          (IF "nextPageLink" \in DOMAIN payload THEN payload.nextPageLink ELSE Undefined)

\* C13 as stated: every listing operation answered an items envelope returns
\* the Paginated Response of it.
C13_EnvelopeRepackaged ==
    ListedEnvelope =>
        /\ last.outcome.kind = "return"
        /\ IsPaginatedOf(last.outcome.value, JSONparse(last.resp.body).value)

\* C13, amended: every listing operation other than listCategories answered
\* an items envelope returns the Paginated Response of it (same items in the
\* same order, same token and link); listCategories returns the items
\* sequence alone, in the same order, without token or link.
C13_EnvelopeRepackagedUnlessCategories ==
    /\ (ListedEnvelope /\ last.op \in ListOps) =>
            /\ last.outcome.kind = "return"
            /\ IsPaginatedOf(last.outcome.value, JSONparse(last.resp.body).value)
    /\ (ListedEnvelope /\ last.op = "listCategories") =>
            last.outcome = Return(JSONparse(last.resp.body).value.items)

\* listPages was answered an envelope of two items with a token and a link,
\* and returned the two items in that order with the token and the link
C13_Witness ==
    /\ ListedEnvelope
    /\ last.op = "listPages"
    /\ last.resp.body = EnvelopeToken
    /\ last.outcome.kind = "return"
    /\ last.outcome.value.items.elems = <<"b", "a">>
    /\ last.outcome.value.nextPageToken = "tok"
    /\ last.outcome.value.nextPageLink = "https://coda.io/apis/v1/docs?pageToken=tok"

\* the pieces of the string s between the occurrences of the character sep
SplitAt(s, sep) ==
    LET at       == {i \in 1..Len(s) : SubSeq(s, i, i) = sep}
        n        == Cardinality(at)
        Nth(k)   == CHOOSE i \in at : Cardinality({j \in at : j < i}) = k - 1
        First(k) == IF k = 1 THEN 1 ELSE Nth(k - 1) + 1
        Last(k)  == IF k = n + 1 THEN Len(s) ELSE Nth(k) - 1
    IN  [k \in 1..(n + 1) |-> SubSeq(s, First(k), Last(k))]

\* the pairs the claim expects of one property: none for undefined and null,
\* one per element for an array, one for any other value
ExpectedPairsOf(key, value) ==
    CASE value.t \in {"undefined", "null"} -> <<>>
      [] value.t = "array" ->
            [i \in 1..Len(value.elems) |->
                key \o "=" \o FormEncode(value.elems[i].s)]
      [] value.t = "boolean" ->
            <<key \o "=" \o (IF value.b THEN "true" ELSE "false")>>
      [] value.t = "number" -> <<key \o "=" \o ToString(value.n)>>
      [] value.t = "string" -> <<key \o "=" \o FormEncode(value.s)>>

RECURSIVE ExpectedPairs(_)
ExpectedPairs(p) ==
    IF p = <<>> THEN <<>>
    ELSE ExpectedPairsOf(p[1].key, p[1].value) \o ExpectedPairs(Tail(p))

\* C14: buildQueryString omits undefined and null values, emits one pair
\* per element of an array in element order, one pair with the stringified
\* value for any other value (false and 0 included), and returns the empty
\* string, without '?', when it emits no pair.
C14_QueryString ==
    calc.kind = "returned" =>
        LET expected == ExpectedPairs(calc.params)
        IN  IF expected = <<>>
            THEN calc.result = ""
            ELSE /\ SubSeq(calc.result, 1, 1) = "?"
                 /\ SplitAt(SubSeq(calc.result, 2, Len(calc.result)), "&") = expected

\* an object with a null, then an array of three elements, was serialised
\* to three pairs in element order; one with false was serialised too
C14_Witness ==
    /\ calc.kind = "returned"
    /\ calc.params = <<[key |-> "limit", value |-> JsNull],
                       [key |-> "query",
                        value |-> JsArrayOf(<<JsText("y"), JsText("x"), JsText("y")>>)]>>
    /\ calc.result = "?query=y&query=x&query=y"

\* the percent-encoding of one character of an identifier
PercentOf(ch) ==
    CASE ch = "/" -> "%2F"
      [] ch = "?" -> "%3F"
      [] ch = " " -> "%20"
      [] OTHER    -> ch

RECURSIVE PercentEncoded(_)
PercentEncoded(s) ==
    IF s = "" THEN ""
    ELSE PercentOf(SubSeq(s, 1, 1)) \o PercentEncoded(SubSeq(s, 2, Len(s)))

\* the segments of the path of an endpoint: what precedes its '?', cut at '/'
PathSegments(endpoint) == SplitAt(SplitAt(endpoint, "?")[1], "/")

\* the path an outbound call targets, after the client's base URL
OutboundEndpoint(call) ==
    SubSeq(call.url, Len(clients[call.client].baseUrl) + 1, Len(call.url))

\* the segments of the operation's path template, the place of each
\* identifier being held by the name of its parameter
TemplateSegments(op) ==
    PathSegments(Endpoint(op, [PlainArgs EXCEPT !.docId = "docId", !.id2 = "id2",
                                                !.id3 = "id3", !.id4 = "id4"]))

\* C15: in the path of every outbound call each identifier the caller
\* supplied, a '/', a '?' or a space included, is percent-encoded and is a
\* segment of its own, and the path has as many segments as the operation's
\* template.
C15_IdentifiersEncoded ==
    \A call \in OutboundCalls :
        LET segments == PathSegments(OutboundEndpoint(call))
            template == TemplateSegments(call.op)
            used     == {PathArgs(call.op)[i] : i \in 1..Len(PathArgs(call.op))}
        IN  /\ Len(segments) = Len(template)
            /\ \A i \in 1..Len(template) :
                    segments[i] = IF template[i] \in used
                                  THEN PercentEncoded(call.args[template[i]])
                                  ELSE template[i]
            /\ \A f \in used : \E i \in 1..Len(template) : template[i] = f

\* pushButton is in flight with a '/', a space and a '?' in its identifiers
C15_Witness ==
    \E call \in inflight :
        /\ call.op = "pushButton"
        /\ call.args.docId = "a/b"
        /\ call.args.id2 = "x y"
        /\ call.args.id3 = "q?r"
        /\ call.args.id4 = "a/b"
        /\ OutboundEndpoint(call) = "/docs/a%2Fb/tables/x%20y/rows/q%3Fr/buttons/a%2Fb"

\* the client was constructed with a non-empty API key
Keyed(c) == ctorLog[c].apiKey # Undefined /\ ctorLog[c].apiKey # ""
IsKeyedInvoke(ev) == ev.e = "invoke" /\ Keyed(ev.client)

\* what was asked or fetched: the client, the operation and its arguments
What(ev) == [client |-> ev.client, op |-> ev.op, args |-> ev.args]
Whats(events) == [i \in 1..Len(events) |-> What(events[i])]

\* a 429 or a 5xx was answered
FailureAnswered ==
    Answered /\ (last.resp.status = RateLimitStatus \/ last.resp.status >= 500)

\* C16 as stated: the fetch calls started are the invocations made, one for
\* one and in invocation order, whatever was answered; a 429 and a 5xx end
\* the call with an error.
C16_OneCallPerInvocation ==
    /\ Whats(SelectSeq(log, IsFetch)) = Whats(SelectSeq(log, IsInvoke))
    /\ FailureAnswered => last.request.kind = "throw" /\ last.call \notin inflight

\* C16, amended: the fetch calls started are the invocations made on the
\* clients that have an API key, one for one and in invocation order,
\* whatever was answered (an invocation on a client without a key starts
\* none); a 429 and a 5xx end the call with an error.
C16_OneCallPerKeyedInvocation ==
    /\ Whats(SelectSeq(log, IsFetch)) = Whats(SelectSeq(log, IsKeyedInvoke))
    /\ FailureAnswered => last.request.kind = "throw" /\ last.call \notin inflight

\* the same invocation was made twice, the first was answered 429, and two
\* fetch calls were started
C16_Witness ==
    /\ Len(log) = 5
    /\ log[1].e = "invoke" /\ log[2].e = "fetch" /\ log[3].e = "settle"
    /\ log[4].e = "invoke" /\ log[5].e = "fetch"
    /\ log[3].status = RateLimitStatus
    /\ What(log[4]) = What(log[1])
    /\ log[5].call = log[2].call

\* C17: the client does not poll and keeps nothing about earlier operations:
\* it starts a fetch call only as the first thing an invocation does (never
\* after an answer, a 202 with a requestId included), and the call an
\* invocation starts is the same whatever came before it; that of
\* getMutationStatus(requestId) is a GET on /mutationStatus/{requestId} under
\* the base URL and the key given at construction.
C17_NoPollingNoHistory ==
    /\ \A i \in 1..Len(log) :
          log[i].e = "fetch" =>
              /\ i > 1
              /\ log[i - 1].e = "invoke"
              /\ What(log[i - 1]) = What(log[i])
    /\ \A i, j \in 1..Len(log) :
          (log[i].e = "fetch" /\ log[j].e = "fetch" /\ What(log[i]) = What(log[j]))
              => log[i].call = log[j].call
    /\ \A i \in 1..Len(log) :
          (log[i].e = "fetch" /\ log[i].op = "getMutationStatus") =>
              /\ log[i].call.url = EffectiveBase(ctorLog[log[i].client])
                                     \o "/mutationStatus/"
                                     \o PercentEncoded(log[i].args.id2)
              /\ log[i].call.method = "GET"
              /\ ~log[i].call.hasBody
              /\ log[i].call.headers.Authorization =
                    "Bearer " \o ctorLog[log[i].client].apiKey

\* upsertRows was answered 202 with a requestId; nothing was fetched until
\* getMutationStatus was invoked, which started its one call
C17_Witness ==
    /\ Len(log) = 5
    /\ log[1].e = "invoke" /\ log[1].op = "upsertRows"
    /\ log[3].e = "settle" /\ log[3].status = AcceptedStatus
    /\ log[4].e = "invoke" /\ log[4].op = "getMutationStatus"
    /\ log[5].e = "fetch" /\ log[5].call \in inflight
    /\ log[5].call.method = "GET"

\* the base URL the claim gives a client constructed with credentials cr
ContractBase(cr) ==
    IF cr.baseUrl # Undefined /\ cr.baseUrl # ""
    THEN cr.baseUrl ELSE "https://coda.io/apis/v1"

\* C18: every outbound call of a client targets effectiveBase + path, where
\* effectiveBase is the baseUrl given at construction if it is non-empty and
\* 'https://coda.io/apis/v1' otherwise; the base and the stored credentials
\* of every client stay what construction made them, whatever operations
\* have succeeded or failed since.
C18_ConstructionContract ==
    /\ Len(clients) = Len(ctorLog)
    /\ \A k \in 1..Len(clients) :
          /\ clients[k].baseUrl = ContractBase(ctorLog[k])
          /\ clients[k].credentials = ctorLog[k]
    /\ \A i \in 1..Len(log) :
          log[i].e = "fetch" =>
              log[i].call.url = ContractBase(ctorLog[log[i].client])
                                  \o Endpoint(log[i].op, log[i].args)

\* a client constructed with an empty base URL had a call fail and then
\* started another, on the default base
C18_Witness ==
    /\ Len(log) = 5
    /\ ctorLog[log[5].client].baseUrl = ""
    /\ log[3].e = "settle" /\ log[3].status = 500
    /\ log[5].e = "fetch"
    /\ log[5].op = "getMutationStatus"
    /\ log[5].call.url = "https://coda.io/apis/v1/mutationStatus/t1"

\* the response is a structured error envelope with a message text
IsErrorEnvelope(completion) ==
    /\ completion.kind = "return"
    /\ completion.value.isError = TRUE
    /\ completion.value.error # Undefined
    /\ completion.value.error # ""

\* C19: a tool handler whose client call has failed, with whatever kind of
\* error, returns an error envelope (isError = true, with a message text);
\* so does the catch clause of every handler on any thrown value, one that
\* is not an Error included.  Nothing propagates out of a handler.
C19_HandlerReturnsErrorEnvelope ==
    /\ (tool.kind = "returned" /\ tool.failed) => IsErrorEnvelope(tool.completion)
    /\ tool.kind = "returned" => tool.completion.kind = "return"
    /\ calc.kind = "caught" => IsErrorEnvelope(calc.completion)

\* coda_upsert_rows returned the error envelope of the RateLimitError its
\* client call failed with
C19_Witness ==
    /\ tool.kind = "returned"
    /\ tool.name = "coda_upsert_rows"
    /\ tool.failed
    /\ last.outcome.error.name = "RateLimitError"
    /\ tool.completion.value.isError
    /\ tool.completion.value.error = "Error: Rate limit exceeded"

\* C20: each tool invocation invokes exactly one client operation and
\* starts at most one outbound call; that of coda_test_connection is the
\* single whoami call of testConnection.
C20_OneOperationPerTool ==
    tool.kind \in {"running", "returned"} =>
        /\ Len(tool.invoked) = 1
        /\ <<tool.name, tool.invoked[1]>> \in ToolTable
        /\ Cardinality(tool.calls) <= 1
        /\ \A call \in tool.calls :
              /\ call.client = tool.client
              /\ call.op = tool.invoked[1]
        /\ tool.name = "coda_test_connection" =>
              \A call \in tool.calls :
                  /\ call.url = ContractBase(ctorLog[tool.client]) \o "/whoami"
                  /\ call.method = "GET"

\* coda_test_connection returned after its one whoami call was answered
C20_Witness ==
    /\ tool.kind = "returned"
    /\ tool.name = "coda_test_connection"
    /\ Cardinality(tool.calls) = 1
    /\ last.sent
    /\ last.call \in tool.calls
    /\ last.call.url = "https://coda.io/apis/v1/whoami"

\* the operations that hand an endpoint to request themselves; testConnection
\* wraps whoami in a try/catch of its own
ResourceOps == Ops \ {"testConnection"}

\* request has failed: getAuthHeaders threw, fetch rejected, the status was
\* classified as a failure, or response.json() threw
RequestFailed == last.kind = "done" /\ last.request.kind = "throw"

\* C21: whenever request fails inside a per-resource operation, whatever the
\* failure (RateLimitError, AuthenticationError, CodaApiError, the rejection
\* of fetch, the SyntaxError of response.json), the operation fails with
\* that same error; it is not caught, replaced or turned into a return value.
C21_FailurePropagates ==
    (RequestFailed /\ last.op \in ResourceOps) =>
        /\ last.outcome.kind = "throw"
        /\ last.outcome.error = last.request.error
        /\ last.outcome.error.name \in
              {"RateLimitError", "AuthenticationError", "CodaApiError",
               "TypeError", "SyntaxError"}

\* deleteDoc, which returns nothing, has failed with the SyntaxError of a
\* 200 answer whose body is not JSON
C21_Witness ==
    /\ RequestFailed
    /\ last.op = "deleteDoc"
    /\ last.sent
    /\ last.resp.status = 200
    /\ last.request.error.name = "SyntaxError"
    /\ last.outcome = last.request

\* testConnection has completed; last.request is what its whoami call gave
ConnectionTested == last.kind = "done" /\ last.op = "testConnection"

\* C22: testConnection never fails; its result says connected exactly when
\* its whoami call succeeded, and when that call failed the message is the
\* message of the error, whatever its kind.
C22_ConnectedIffWhoamiSucceeded ==
    ConnectionTested =>
        /\ last.outcome.kind = "return"
        /\ last.outcome.value.kind = "connection"
        /\ last.outcome.value.connected <=> (last.request.kind = "return")
        /\ last.request.kind = "throw" =>
              last.outcome.value.message = last.request.error.message

\* a read operation, by its name: list*, get*, whoami and resolveBrowserLink
\* (testConnection's call is the call of whoami)
ReadOperation(op) ==
    \/ SubSeq(op, 1, 4) = "list"
    \/ SubSeq(op, 1, 3) = "get"
    \/ op \in {"whoami", "testConnection", "resolveBrowserLink"}

\* the verb the verb mapping gives each operation
ExpectedVerb(op) ==
    CASE op \in {"createDoc", "createPage", "upsertRows", "addPermission",
                 "pushButton", "triggerAutomation"} -> "POST"
      [] op \in {"updatePage", "updateRow", "publishDoc"} -> "PUT"
      [] op = "updateAclSettings" -> "PATCH"
      [] op \in {"deleteDoc", "deleteRow", "deleteRows", "deletePermission",
                 "unpublishDoc"} -> "DELETE"
      [] OTHER -> IF ReadOperation(op) THEN "GET" ELSE "<no verb>"

\* the path template of the resource each operation is about; docId, id2,
\* id3 and id4 stand where the operation's identifiers go
ResourcePath(op) ==
    CASE op \in {"whoami", "testConnection"} -> "/whoami"
      [] op \in {"listDocs", "createDoc"} -> "/docs"
      [] op \in {"getDoc", "deleteDoc"} -> "/docs/docId"
      [] op \in {"listPages", "createPage"} -> "/docs/docId/pages"
      [] op \in {"getPage", "updatePage"} -> "/docs/docId/pages/id2"
      [] op = "listTables" -> "/docs/docId/tables"
      [] op = "getTable" -> "/docs/docId/tables/id2"
      [] op = "listColumns" -> "/docs/docId/tables/id2/columns"
      [] op = "getColumn" -> "/docs/docId/tables/id2/columns/id3"
      [] op \in {"listRows", "upsertRows", "deleteRows"} ->
            "/docs/docId/tables/id2/rows"
      [] op \in {"getRow", "updateRow", "deleteRow"} ->
            "/docs/docId/tables/id2/rows/id3"
      [] op = "pushButton" -> "/docs/docId/tables/id2/rows/id3/buttons/id4"
      [] op = "listFormulas" -> "/docs/docId/formulas"
      [] op = "getFormula" -> "/docs/docId/formulas/id2"
      [] op = "listControls" -> "/docs/docId/controls"
      [] op = "getControl" -> "/docs/docId/controls/id2"
      [] op = "listAutomations" -> "/docs/docId/hooks/automation/rules"
      [] op = "triggerAutomation" -> "/docs/docId/hooks/automation/id2"
      [] op = "getAclMetadata" -> "/docs/docId/acl/metadata"
      [] op \in {"listPermissions", "addPermission"} -> "/docs/docId/acl/permissions"
      [] op = "deletePermission" -> "/docs/docId/acl/permissions/id2"
      [] op \in {"getAclSettings", "updateAclSettings"} -> "/docs/docId/acl/settings"
      [] op = "listCategories" -> "/categories"
      [] op \in {"publishDoc", "unpublishDoc"} -> "/docs/docId/publish"
      [] op = "resolveBrowserLink" -> "/resolveBrowserLink"
      [] op = "getMutationStatus" -> "/mutationStatus/id2"

\* the path of the call is the template with the caller's identifiers, encoded
OnResourcePath(call) ==
    LET segments == PathSegments(OutboundEndpoint(call))
        template == SplitAt(ResourcePath(call.op), "/")
    IN  /\ Len(segments) = Len(template)
        /\ \A i \in 1..Len(template) :
                segments[i] = IF template[i] \in {"docId", "id2", "id3", "id4"}
                              THEN PercentEncoded(call.args[template[i]])
                              ELSE template[i]

\* C23: every outbound call carries the verb of its operation: GET for the
\* reads, POST for create, upsert, add, push and trigger, PUT for updatePage,
\* updateRow and publishDoc, PATCH for updateAclSettings, DELETE for the
\* removals; and its path is the path template of the operation's resource.
C23_VerbMapping ==
    \A call \in OutboundCalls :
        /\ call.method = ExpectedVerb(call.op)
        /\ OnResourcePath(call)

\* publishDoc is in flight as a PUT on the publish path of its doc
C23_Witness ==
    \E call \in inflight :
        /\ call.op = "publishDoc"
        /\ call.method = "PUT"
        /\ call.args.docId = "a/b"
        /\ call.url = "https://coda.io/apis/v1/docs/a%2Fb/publish"

\* the JSON text of the rows and of the key columns a caller may give
WrittenRows(rows) ==
    CASE rows = OneRow ->
            "[{\"cells\":[{\"column\":\"Name\",\"value\":\"Ada\"}]}]"
      [] rows = TwoEqualRows ->
            "[{\"cells\":[{\"column\":\"b\",\"value\":\"2\"},{\"column\":\"a\",\"value\":\"1\"}]},"
               \o "{\"cells\":[{\"column\":\"b\",\"value\":\"2\"},{\"column\":\"a\",\"value\":\"1\"}]}]"

WrittenKeyColumns(keyColumns) ==
    IF keyColumns.elems = <<>> THEN "[]" ELSE "[\"b\",\"a\"]"

\* the body of an upsert: the caller's rows, and the caller's key columns if
\* any were given
ExpectedUpsertBody(given) ==
    "{\"rows\":" \o WrittenRows(given.rows)
       \o (IF given.keyColumns = JsUndefined THEN ""
           ELSE ",\"keyColumns\":" \o WrittenKeyColumns(given.keyColumns))
       \o "}"

\* coda_upsert_rows has returned after the upstream acknowledged the upsert
UpsertAcknowledged ==
    /\ tool.kind = "returned"
    /\ tool.name = "coda_upsert_rows"
    /\ last.sent
    /\ last.request.kind = "return"
    /\ last.request.value.kind = "object"

\* C24: the body of every upsertRows call is the caller's rows and key
\* columns as given (no keyColumns property when none were given), in one
\* POST and with no other call; the client returns the upstream's
\* acknowledgment as it is, and addedRowIds and updatedRowIds are in the tool
\* result exactly as the upstream sent them.
C24_UpsertPassThrough ==
    /\ \A call \in OutboundCalls :
          call.op = "upsertRows" =>
              /\ call.method = "POST"
              /\ call.body = ExpectedUpsertBody(call.args.given)
    /\ (tool.kind \in {"running", "returned"} /\ tool.name = "coda_upsert_rows") =>
          Cardinality(tool.calls) <= 1
    /\ UpsertAcknowledged =>
          LET sent == JSONparse(last.resp.body).value
              data == tool.completion.value.data
          IN  /\ last.outcome = Return(sent)
              /\ ~tool.completion.value.isError
              /\ \A f \in {"addedRowIds", "updatedRowIds"} :
                    IF f \in DOMAIN sent
                    THEN f \in DOMAIN data /\ data[f] = sent[f]
                    ELSE f \notin DOMAIN data

\* an upsert of two equal rows with key columns b, a was acknowledged with
\* two updated rows, which the tool result shows
C24_Witness ==
    /\ UpsertAcknowledged
    /\ last.call.args.given.rows = TwoEqualRows
    /\ last.call.args.given.keyColumns = JsArrayOf(<<JsText("b"), JsText("a")>>)
    /\ last.resp.body = UpdatedAckBody
    /\ tool.completion.value.data.updatedRowIds = JsonArray(<<"i-7", "i-3">>)
    /\ tool.completion.value.data.addedRowIds = JsonArray(<<>>)
    /\ tool.completion.value.data.success

\* the credential a header gives: none for a header that is missing or empty
CredentialOf(header) == IF header = Null \/ header = "" THEN Undefined ELSE header

\* C25: each field parseTenantCredentials returns is absent, never the empty
\* string, when its header is missing or empty, and is the header's value
\* otherwise; every call on the same headers returns the same value, and
\* nothing but the returned value changes.
C25_ParseIsPure ==
    calc.kind = "request" =>
        /\ \A i \in 1..Len(calc.results) :
              /\ calc.results[i].apiKey = CredentialOf(calc.headers.apiKey)
              /\ calc.results[i].baseUrl = CredentialOf(calc.headers.baseUrl)
              /\ calc.results[i].apiKey # "" /\ calc.results[i].baseUrl # ""
        /\ \A i, j \in 1..Len(calc.results) : calc.results[i] = calc.results[j]
        /\ clients = <<>> /\ ctorLog = <<>> /\ inflight = {} /\ nPassed = 0
        /\ last = NoLast /\ http = NoHttp

\* a request with an empty key header and a base URL header was parsed twice
C25_Witness ==
    /\ calc.kind = "request"
    /\ calc.headers.apiKey = ""
    /\ calc.headers.baseUrl = "https://tenant.example/v1"
    /\ Len(calc.results) = 2
    /\ calc.results[1] = [apiKey |-> Undefined, baseUrl |-> "https://tenant.example/v1"]
    /\ calc.results[2] = calc.results[1]

\* the text an error envelope is to carry for a thrown value: the message of
\* an Error, the string form of any other value
MessageOfThrown(thrown) ==
    IF IsError(thrown) THEN thrown.message
    ELSE CASE thrown.value = JsUndefined     -> "undefined"
           [] thrown.value = JsNull          -> "null"
           [] thrown.value = JsNumber(0)     -> "0"
           [] thrown.value = JsText("boom")  -> "boom"

RetryableMark == " (retryable)"

\* the text ends with the retryable mark
MarkedRetryable(text) ==
    /\ Len(text) >= Len(RetryableMark)
    /\ SubSeq(text, Len(text) - Len(RetryableMark) + 1, Len(text)) = RetryableMark

\* what formatError is to return for a thrown value
FormatsAs(envelope, thrown) ==
    /\ envelope.isError
    /\ envelope.error =
          "Error: " \o MessageOfThrown(thrown)
             \o (IF IsCodaApiError(thrown) /\ Retryable(thrown) THEN RetryableMark ELSE "")
    /\ MarkedRetryable(envelope.error) <=> (IsCodaApiError(thrown) /\ Retryable(thrown))

\* C26: the envelope formatError returns always carries a message text,
\* 'Error: ' and the error's message (the string form of a value that is not
\* an Error), followed by ' (retryable)' exactly when the error is a
\* CodaApiError whose retryable flag is set.
C26_RetryableSurfaced ==
    /\ (calc.kind = "caught" /\ calc.name # "coda_test_connection") =>
          /\ calc.completion.kind = "return"
          /\ FormatsAs(calc.completion.value, calc.thrown)
    /\ (tool.kind = "returned" /\ tool.failed /\ tool.name # "coda_test_connection") =>
          FormatsAs(tool.completion.value, last.outcome.error)

\* coda_get_doc returned the envelope of a CodaApiError with status 500,
\* marked retryable
C26_Witness ==
    /\ tool.kind = "returned"
    /\ tool.name = "coda_get_doc"
    /\ tool.failed
    /\ last.outcome.error = CodaApiError("API error: 500", 500)
    /\ tool.completion.value.error = "Error: API error: 500 (retryable)"

\* the text sub occurs in the text s
Contains(s, sub) ==
    \E i \in 1..(Len(s) - Len(sub) + 1) : SubSeq(s, i, i + Len(sub) - 1) = sub

\* C27: no addPermission call goes out whose principal has type 'email' and
\* no email, or type 'domain' and no domain.
C27_PrincipalComplete ==
    \A call \in OutboundCalls :
        call.op = "addPermission" =>
            /\ Contains(call.body, "\"type\":\"email\"") =>
                  Contains(call.body, "\"email\":\"")
            /\ Contains(call.body, "\"type\":\"domain\"") =>
                  Contains(call.body, "\"domain\":\"")

\* C28: every tool name the documentation advertises, in the README and in
\* the default endpoint's tools list, is registered on the server built for
\* a request, and every registered tool is in the default endpoint's list.
C28_AdvertisedToolsRegistered ==
    /\ http.kind = "mcp" =>
          /\ ReadmeTools \subseteq http.tools
          /\ DefaultResponseTools \subseteq http.tools
    /\ http.kind = "default" => ToolNames \subseteq http.tools

\* C29: an upsertRows or updateRow call carries the query string
\* ?disableParsing=true exactly when the caller set the flag to true; when
\* the flag is false or was not given, the path has no query string; the
\* request body never mentions the flag.
C29_DisableParsingIsQuery ==
    \A call \in OutboundCalls :
        call.op \in {"upsertRows", "updateRow"} =>
            LET endpoint == OutboundEndpoint(call)
                set      == call.args.given.disableParsing = JsBoolean(TRUE)
            IN  /\ set => SplitAt(endpoint, "?") =
                              <<SplitAt(endpoint, "?")[1], "disableParsing=true">>
                /\ ~set => ~Contains(endpoint, "?")
                /\ OnResourcePath(call)
                /\ ~Contains(call.body, "disableParsing")
                /\ ~Contains(call.body, "true") /\ ~Contains(call.body, "false")

\* coda_update_row was called with disableParsing: true: the PUT in flight has
\* the flag in its query string and the cells alone in its body
C29_Witness ==
    \E call \in inflight :
        /\ call.op = "updateRow"
        /\ call.args.given.disableParsing = JsBoolean(TRUE)
        /\ call.url =
              "https://coda.io/apis/v1/docs/d1/tables/t1/rows/r1?disableParsing=true"
        /\ call.body = "{\"row\":{\"cells\":[{\"column\":\"Name\",\"value\":\"Ada\"}]}}"

\* a write tool has returned after the upstream accepted its mutation
MutationAccepted ==
    /\ tool.kind = "returned"
    /\ tool.name \in WriteTools
    /\ last.sent
    /\ ResponseOk(last.resp.status)

\* C30: a write tool whose mutation the upstream accepted with a success
\* status, a 204 and a 202 without the optional id lists included, returns a
\* success envelope: success is true and isError is not set.
C30_AcceptedIsSuccess ==
    MutationAccepted =>
        /\ tool.completion.kind = "return"
        /\ ~tool.completion.value.isError
        /\ tool.completion.value.data.success

====
